---------------------------- MODULE Spec2Model ----------------------------
(***************************************************************************)
(* Smart Socks: windowed feature extraction and streaming classification.  *)
(* Model of feature_utils.py, feature_extraction.py, train_model.py        *)
(* (load_features) and real_time_classifier.py.                            *)
(*                                                                         *)
(* Strings that the program sorts (feature names) are modelled as          *)
(* sequences of one-character strings so that Python's codepoint order     *)
(* can be computed.  Real-valued library results (np.std, stats.skew, the  *)
(* FFT ...) are modelled as terms <<function, arguments>>; exactly         *)
(* representable results are rationals <<"rat", numerator, denominator>>.  *)
(***************************************************************************)
EXTENDS Integers, Sequences, FiniteSets, TLC

(***************************************************************************)
(* config.py                                                               *)
(***************************************************************************)
L_P_Heel == <<"L","_","P","_","H","e","e","l">>
L_P_Ball == <<"L","_","P","_","B","a","l","l">>
L_S_Knee == <<"L","_","S","_","K","n","e","e">>
R_P_Heel == <<"R","_","P","_","H","e","e","l">>
R_P_Ball == <<"R","_","P","_","B","a","l","l">>
R_S_Knee == <<"R","_","S","_","K","n","e","e">>

\* SENSORS['names']
SENSOR_NAMES == <<L_P_Heel, L_P_Ball, L_S_Knee, R_P_Heel, R_P_Ball, R_S_Knee>>

\* SENSORS['left_leg'], SENSORS['right_leg']
LEFT_LEG == <<L_P_Heel, L_P_Ball, L_S_Knee>>

RIGHT_LEG == <<R_P_Heel, R_P_Ball, R_S_Knee>>

\* SENSORS['left_pressure'], SENSORS['right_pressure']
LEFT_PRESSURE == <<L_P_Heel, L_P_Ball>>

RIGHT_PRESSURE == <<R_P_Heel, R_P_Ball>>

\* HARDWARE['sample_rate_hz'], HARDWARE['sample_interval_ms']
SAMPLE_RATE_HZ == 50

SAMPLE_INTERVAL_MS == 20

\* WINDOWING
WINDOW_SIZE_MS == 1000

WINDOW_STRIDE_MS == 500

SAMPLES_PER_WINDOW == 50

\* real_time_classifier.py module constants
WINDOW_SAMPLES == SAMPLES_PER_WINDOW

STRIDE_SAMPLES == (WINDOW_SAMPLES * 5) \div 10

SMOOTHING_WINDOW_SIZE == 5

\* variant: half a window is accepted
EnoughSamples_Half(n) == 10 * n >= 5 * SAMPLES_PER_WINDOW

\* The test `len(w) >= SAMPLES_PER_WINDOW * 0.8` (resp. its negation
\* `len(buffer) < WINDOW_SAMPLES * 0.8`) in integers: n >= 0.8*W  <=>  10n >= 8W.
EnoughSamples(n) == 10 * n >= 8 * SAMPLES_PER_WINDOW

(***************************************************************************)
(* Python strings and sorted(): codepoint order on the characters used.    *)
(***************************************************************************)
\* ord(c) of the characters of the names
Ord ==
  "0" :> 48 @@ "1" :> 49 @@ "2" :> 50 @@ "3" :> 51 @@ "4" :> 52 @@ "5" :> 53 @@
  "6" :> 54 @@ "7" :> 55 @@ "8" :> 56 @@ "9" :> 57 @@ "A" :> 65 @@ "B" :> 66 @@
  "C" :> 67 @@ "D" :> 68 @@ "E" :> 69 @@ "F" :> 70 @@ "G" :> 71 @@ "H" :> 72 @@
  "I" :> 73 @@ "J" :> 74 @@ "K" :> 75 @@ "L" :> 76 @@ "M" :> 77 @@ "N" :> 78 @@
  "O" :> 79 @@ "P" :> 80 @@ "Q" :> 81 @@ "R" :> 82 @@ "S" :> 83 @@ "T" :> 84 @@
  "U" :> 85 @@ "V" :> 86 @@ "W" :> 87 @@ "X" :> 88 @@ "Y" :> 89 @@ "Z" :> 90 @@
  "_" :> 95 @@ "a" :> 97 @@ "b" :> 98 @@ "c" :> 99 @@ "d" :> 100 @@ "e" :> 101 @@
  "f" :> 102 @@ "g" :> 103 @@ "h" :> 104 @@ "i" :> 105 @@ "j" :> 106 @@ "k" :> 107 @@
  "l" :> 108 @@ "m" :> 109 @@ "n" :> 110 @@ "o" :> 111 @@ "p" :> 112 @@ "q" :> 113 @@
  "r" :> 114 @@ "s" :> 115 @@ "t" :> 116 @@ "u" :> 117 @@ "v" :> 118 @@ "w" :> 119 @@
  "x" :> 120 @@ "y" :> 121 @@ "z" :> 122

\* a < b for Python str
RECURSIVE StrLess(_, _)
StrLess(a, b) ==
  IF b = <<>> THEN FALSE
  ELSE IF a = <<>> THEN TRUE
  ELSE IF Ord[Head(a)] # Ord[Head(b)] THEN Ord[Head(a)] < Ord[Head(b)]
  ELSE StrLess(Tail(a), Tail(b))

\* sorted(list of str)
sorted(s) == SortSeq(s, StrLess)

(***************************************************************************)
(* Python dict: a sequence of <<key, value>> pairs in insertion order.     *)
(***************************************************************************)
DictKeys(d) == [i \in 1..Len(d) |-> d[i][1]]

DictHas(d, k) == \E i \in 1..Len(d) : d[i][1] = k

DictGet(d, k) == d[CHOOSE i \in 1..Len(d) : d[i][1] = k][2]

\* d[k] = v
DictSet(d, k, v) ==
  IF DictHas(d, k)
  THEN [i \in 1..Len(d) |-> IF d[i][1] = k THEN <<k, v>> ELSE d[i]]
  ELSE Append(d, <<k, v>>)

\* d.update(e): the values of the keys d already has are replaced in
\* place, the other keys of e are added at the end in e's order
DictUpdate(d, e) ==
  [i \in 1..Len(d) |->
     IF DictHas(e, d[i][1]) THEN <<d[i][1], DictGet(e, d[i][1])>> ELSE d[i]]
  \o SelectSeq(e, LAMBDA p : ~DictHas(d, p[1]))

(***************************************************************************)
(* Numbers.                                                                *)
(***************************************************************************)
Rat(a, b) == <<"rat", a, b>>

Num(a) == Rat(a, 1)

\* equality of two feature values
ValEq(x, y) ==
  /\ x[1] = y[1]
  /\ IF x[1] = "rat" THEN x[2] * y[3] = y[2] * x[3] ELSE x = y

RECURSIVE Sum(_)
Sum(col) == IF col = <<>> THEN 0 ELSE Head(col) + Sum(Tail(col))

SumSq(col) == Sum([i \in 1..Len(col) |-> col[i] * col[i]])

Min(col) == CHOOSE x \in {col[i] : i \in 1..Len(col)} :
              \A i \in 1..Len(col) : x <= col[i]

Max(col) == CHOOSE x \in {col[i] : i \in 1..Len(col)} :
              \A i \in 1..Len(col) : x >= col[i]

Abs(x) == IF x < 0 THEN -x ELSE x

\* np.mean
Mean(col) == Rat(Sum(col), Len(col))

\* np.std(col) > 0
StdPositive(col) == \E i \in 1..Len(col) : col[i] # col[1]

\* np.std: 0 on a constant column, otherwise a library term
Std(col) == IF StdPositive(col) THEN <<"np.std", col>> ELSE Num(0)

\* np.mean(a) / (np.mean(b) + 1e-6)
RatioEps(a, b) == <<"div_eps", Mean(a), Mean(b)>>

\* np.sign(col - np.mean(col)), exactly: the sign of n*x - sum
SignAboutMean(col) ==
  LET n == Len(col)
      total == Sum(col)
  IN  [i \in 1..n |->
         IF n * col[i] > total THEN 1 ELSE IF n * col[i] < total THEN -1 ELSE 0]

\* np.signbit(col - np.mean(col))
SignbitAboutMean(col) ==
  LET n == Len(col)
      total == Sum(col)
  IN  [i \in 1..n |-> n * col[i] < total]

\* the column of sensor number i of an (n_samples, n_sensors) array
Column(data, i) == [r \in 1..Len(data) |-> data[r][i]] \o <<>>

\* element-wise sum of two columns
ColAdd(a, b) == [r \in 1..Len(a) |-> a[r] + b[r]] \o <<>>

\* SENSOR_NAMES.index(name) / sensor_idx[name]
SensorIndex(name) == CHOOSE i \in 1..Len(SENSOR_NAMES) : SENSOR_NAMES[i] = name

\* np.array([[s[sensor] for sensor in sensor_names] for s in data])
ToArray(samples) ==
  [r \in 1..Len(samples) |->
     [i \in 1..Len(SENSOR_NAMES) |-> samples[r].values[SENSOR_NAMES[i]]]]

(***************************************************************************)
(* feature_utils.py: the shared extractors (online path).                  *)
(***************************************************************************)
\* sum(|diff(sign(x - mean))|): twice the zero-crossing count of line 68
SignDiffSum(col) ==
  LET s == SignAboutMean(col)
  IN  Sum([i \in 1..(Len(col) - 1) |-> Abs(s[i + 1] - s[i])])

\* the per-sensor body of the loop of extract_statistical_features
fu_statistical_of_sensor(sensor, col) ==
  LET n_samples == Len(col)
  IN <<
    <<sensor \o <<"_","m","e","a","n">>, Mean(col)>>,
    <<sensor \o <<"_","s","t","d">>, Std(col)>>,
    <<sensor \o <<"_","m","i","n">>, Num(Min(col))>>,
    <<sensor \o <<"_","m","a","x">>, Num(Max(col))>>,
    <<sensor \o <<"_","r","a","n","g","e">>, Num(Max(col) - Min(col))>>,
    <<sensor \o <<"_","q","2","5">>, <<"np.percentile", col, 25>> >>,
    <<sensor \o <<"_","q","5","0">>, <<"np.percentile", col, 50>> >>,
    <<sensor \o <<"_","q","7","5">>, <<"np.percentile", col, 75>> >>,
    <<sensor \o <<"_","s","k","e","w","n","e","s","s">>, <<"stats.skew", col>> >>,
    <<sensor \o <<"_","k","u","r","t","o","s","i","s">>, <<"stats.kurtosis", col>> >>,
    <<sensor \o <<"_","z","c","r">>,
      IF n_samples > 1 THEN Rat(SignDiffSum(col), 2 * (n_samples - 1))
      ELSE Num(0)>>,
    <<sensor \o <<"_","r","m","s">>, <<"np.sqrt", Rat(SumSq(col), n_samples)>> >>,
    <<sensor \o <<"_","e","n","e","r","g","y">>, Num(SumSq(col))>>,
    <<sensor \o <<"_","s","l","o","p","e">>,
      IF n_samples > 1 THEN <<"stats.linregress", col>> ELSE Num(0)>>
  >>

RECURSIVE fu_statistical_loop(_, _, _)
fu_statistical_loop(data, i, features) ==
  IF i > Len(SENSOR_NAMES) THEN features
  ELSE fu_statistical_loop(data, i + 1,
         DictUpdate(features,
                    fu_statistical_of_sensor(SENSOR_NAMES[i], Column(data, i))))

fu_extract_statistical_features(data) == fu_statistical_loop(data, 1, <<>>)

\* np.corrcoef(a, b)[0, 1]
Corrcoef(a, b) == <<"np.corrcoef", a, b>>

fu_extract_cross_sensor_features(data) ==
  LET get_col(name) == Column(data, SensorIndex(name))
      left_pressure_sum  == ColAdd(get_col(LEFT_PRESSURE[1]), get_col(LEFT_PRESSURE[2]))
      right_pressure_sum == ColAdd(get_col(RIGHT_PRESSURE[1]), get_col(RIGHT_PRESSURE[2]))
      left_heel  == get_col(L_P_Heel)
      left_ball  == get_col(L_P_Ball)
      right_heel == get_col(R_P_Heel)
      right_ball == get_col(R_P_Ball)
      left_knee  == get_col(L_S_Knee)
      right_knee == get_col(R_S_Knee)
      left_total  == ColAdd(left_pressure_sum, left_knee)
      right_total == ColAdd(right_pressure_sum, right_knee)
  IN <<
    <<<<"l","e","f","t","_","p","r","e","s","s","u","r","e","_","m","e","a","n">>, Mean(left_pressure_sum)>>,
    <<<<"l","e","f","t","_","p","r","e","s","s","u","r","e","_","s","t","d">>, Std(left_pressure_sum)>>,
    <<<<"r","i","g","h","t","_","p","r","e","s","s","u","r","e","_","m","e","a","n">>, Mean(right_pressure_sum)>>,
    <<<<"r","i","g","h","t","_","p","r","e","s","s","u","r","e","_","s","t","d">>, Std(right_pressure_sum)>>,
    <<<<"l","e","f","t","_","r","i","g","h","t","_","p","r","e","s","s","u","r","e","_","r","a","t","i","o">>, RatioEps(left_pressure_sum, right_pressure_sum)>>,
    <<<<"l","e","f","t","_","h","e","e","l","_","b","a","l","l","_","r","a","t","i","o">>, RatioEps(left_heel, left_ball)>>,
    <<<<"r","i","g","h","t","_","h","e","e","l","_","b","a","l","l","_","r","a","t","i","o">>, RatioEps(right_heel, right_ball)>>,
    <<<<"l","e","f","t","_","k","n","e","e","_","m","e","a","n">>, Mean(left_knee)>>,
    <<<<"l","e","f","t","_","k","n","e","e","_","s","t","d">>, Std(left_knee)>>,
    <<<<"r","i","g","h","t","_","k","n","e","e","_","m","e","a","n">>, Mean(right_knee)>>,
    <<<<"r","i","g","h","t","_","k","n","e","e","_","s","t","d">>, Std(right_knee)>>,
    <<<<"l","e","f","t","_","r","i","g","h","t","_","k","n","e","e","_","r","a","t","i","o">>, RatioEps(left_knee, right_knee)>>,
    <<<<"l","e","f","t","_","t","o","t","a","l","_","m","e","a","n">>, Mean(left_total)>>,
    <<<<"r","i","g","h","t","_","t","o","t","a","l","_","m","e","a","n">>, Mean(right_total)>>,
    <<<<"l","e","f","t","_","r","i","g","h","t","_","t","o","t","a","l","_","r","a","t","i","o">>, RatioEps(left_total, right_total)>>,
    <<<<"l","e","f","t","_","r","i","g","h","t","_","c","o","r","r","e","l","a","t","i","o","n">>,
      IF Len(left_total) > 1 /\ StdPositive(left_total) /\ StdPositive(right_total)
      THEN Corrcoef(left_total, right_total) ELSE Num(0)>>,
    <<<<"l","e","f","t","_","p","r","e","s","s","u","r","e","_","s","t","r","e","t","c","h","_","c","o","r","r">>,
      IF StdPositive(left_pressure_sum) /\ StdPositive(left_knee)
      THEN Corrcoef(left_pressure_sum, left_knee) ELSE Num(0)>>,
    <<<<"r","i","g","h","t","_","p","r","e","s","s","u","r","e","_","s","t","r","e","t","c","h","_","c","o","r","r">>,
      IF StdPositive(right_pressure_sum) /\ StdPositive(right_knee)
      THEN Corrcoef(right_pressure_sum, right_knee) ELSE Num(0)>>
  >>

\* np.sum(positive_fft) > 0: some magnitude among the first n//2 bins is
\* positive; for non-negative ADC readings the DC bin is, unless all are 0.
PositiveSpectrum(col) == Len(col) \div 2 > 0 /\ \E i \in 1..Len(col) : col[i] # 0

\* the per-sensor body of the loop of extract_frequency_features
frequency_of_sensor(sensor, col, sample_rate) ==
  <<
    <<sensor \o <<"_","s","p","e","c","t","r","a","l","_","e","n","e","r","g","y">>, <<"spectral_energy", col>> >>,
    <<sensor \o <<"_","s","p","e","c","t","r","a","l","_","e","n","t","r","o","p","y">>, <<"spectral_entropy", col>> >>,
    <<sensor \o <<"_","d","o","m","i","n","a","n","t","_","f","r","e","q">>,
      IF Len(col) \div 2 > 0 THEN <<"dominant_freq", col, sample_rate>>
      ELSE Num(0)>>,
    <<sensor \o <<"_","s","p","e","c","t","r","a","l","_","c","e","n","t","r","o","i","d">>,
      IF PositiveSpectrum(col) THEN <<"spectral_centroid", col, sample_rate>>
      ELSE Num(0)>>
  >>

RECURSIVE fu_frequency_loop(_, _, _, _)
fu_frequency_loop(data, sample_rate, i, features) ==
  IF i > Len(SENSOR_NAMES) THEN features
  ELSE fu_frequency_loop(data, sample_rate, i + 1,
         DictUpdate(features,
                    frequency_of_sensor(SENSOR_NAMES[i], Column(data, i), sample_rate)))

fu_extract_frequency_features(data, sample_rate) ==
  fu_frequency_loop(data, sample_rate, 1, <<>>)

\* feature_utils.extract_all_features(list of dicts)
fu_extract_all_features(samples) ==
  LET data == ToArray(samples)
  IN  DictUpdate(DictUpdate(DictUpdate(<<>>,
        fu_extract_statistical_features(data)),
        fu_extract_cross_sensor_features(data)),
        fu_extract_frequency_features(data, SAMPLE_RATE_HZ))

\* features_to_array(features_dict) with feature_order=None: the row of
\* <<name, value>> in the order sorted(features_dict.keys())
features_to_array(features_dict) ==
  LET feature_order == sorted(DictKeys(features_dict))
  IN  [i \in 1..Len(feature_order) |->
         <<feature_order[i], DictGet(features_dict, feature_order[i])>>]

\* the float "not a number"
NaN == <<"nan">>

\* the floats stats.skew(col) and stats.kurtosis(col) can be: for a constant
\* column SciPy returns 0 and -3 (Fisher) in its older releases and nan in
\* its newer ones; no release is pinned, so either is possible
stats_skew(col) ==
  IF StdPositive(col) THEN {<<"stats.skew", col>>} ELSE {Num(0), NaN}

stats_kurtosis(col) ==
  IF StdPositive(col) THEN {<<"stats.kurtosis", col>>} ELSE {Rat(-3, 1), NaN}

\* the floats a stored feature value can be
FloatsOf(value) ==
  IF value[1] = "stats.skew" THEN stats_skew(value[2])
  ELSE IF value[1] = "stats.kurtosis" THEN stats_kurtosis(value[2])
  ELSE {value}

(***************************************************************************)
(* feature_extraction.py: the batch tool's own extractors (offline path).  *)
(***************************************************************************)
\* np.sum(np.diff(np.signbit(x - mean))): diff of booleans is "not equal"
SignbitChanges(col) ==
  LET s == SignbitAboutMean(col)
  IN  Cardinality({i \in 1..(Len(col) - 1) : s[i + 1] # s[i]})

fe_statistical_of_sensor(sensor, col) ==
  <<
    <<sensor \o <<"_","m","e","a","n">>, Mean(col)>>,
    <<sensor \o <<"_","s","t","d">>, Std(col)>>,
    <<sensor \o <<"_","m","i","n">>, Num(Min(col))>>,
    <<sensor \o <<"_","m","a","x">>, Num(Max(col))>>,
    <<sensor \o <<"_","r","a","n","g","e">>, Num(Max(col) - Min(col))>>,
    <<sensor \o <<"_","q","2","5">>, <<"np.percentile", col, 25>> >>,
    <<sensor \o <<"_","q","5","0">>, <<"np.percentile", col, 50>> >>,
    <<sensor \o <<"_","q","7","5">>, <<"np.percentile", col, 75>> >>,
    <<sensor \o <<"_","s","k","e","w","n","e","s","s">>, <<"stats.skew", col>> >>,
    <<sensor \o <<"_","k","u","r","t","o","s","i","s">>, <<"stats.kurtosis", col>> >>,
    <<sensor \o <<"_","z","c","r">>, Rat(SignbitChanges(col), Len(col))>>,
    <<sensor \o <<"_","r","m","s">>, <<"np.sqrt", Rat(SumSq(col), Len(col))>> >>,
    <<sensor \o <<"_","e","n","e","r","g","y">>, Num(SumSq(col))>>,
    <<sensor \o <<"_","s","l","o","p","e">>,
      IF Len(col) > 1 THEN <<"stats.linregress", col>> ELSE Num(0)>>
  >>

RECURSIVE fe_statistical_loop(_, _, _)
fe_statistical_loop(data, i, features) ==
  IF i > Len(SENSOR_NAMES) THEN features
  ELSE fe_statistical_loop(data, i + 1,
         DictUpdate(features,
                    fe_statistical_of_sensor(SENSOR_NAMES[i], Column(data, i))))

fe_extract_statistical_features(data) == fe_statistical_loop(data, 1, <<>>)

fe_extract_cross_sensor_features(data) ==
  LET col(name) == Column(data, SensorIndex(name))
      left_total  == ColAdd(ColAdd(col(LEFT_LEG[1]), col(LEFT_LEG[2])), col(LEFT_LEG[3]))
      right_total == ColAdd(ColAdd(col(RIGHT_LEG[1]), col(RIGHT_LEG[2])), col(RIGHT_LEG[3]))
      left_heel  == col(LEFT_PRESSURE[1])
      left_ball  == col(LEFT_PRESSURE[2])
      right_heel == col(RIGHT_PRESSURE[1])
      right_ball == col(RIGHT_PRESSURE[2])
      left_knee  == col(L_S_Knee)
      right_knee == col(R_S_Knee)
  IN <<
    <<<<"l","e","f","t","_","t","o","t","a","l","_","m","e","a","n">>, Mean(left_total)>>,
    <<<<"l","e","f","t","_","t","o","t","a","l","_","s","t","d">>, Std(left_total)>>,
    <<<<"r","i","g","h","t","_","t","o","t","a","l","_","m","e","a","n">>, Mean(right_total)>>,
    <<<<"r","i","g","h","t","_","t","o","t","a","l","_","s","t","d">>, Std(right_total)>>,
    <<<<"l","e","f","t","_","r","i","g","h","t","_","r","a","t","i","o">>, RatioEps(left_total, right_total)>>,
    <<<<"l","e","f","t","_","h","e","e","l","_","b","a","l","l","_","r","a","t","i","o">>, RatioEps(left_heel, left_ball)>>,
    <<<<"r","i","g","h","t","_","h","e","e","l","_","b","a","l","l","_","r","a","t","i","o">>, RatioEps(right_heel, right_ball)>>,
    <<<<"l","e","f","t","_","k","n","e","e","_","m","e","a","n">>, Mean(left_knee)>>,
    <<<<"l","e","f","t","_","k","n","e","e","_","s","t","d">>, Std(left_knee)>>,
    <<<<"r","i","g","h","t","_","k","n","e","e","_","m","e","a","n">>, Mean(right_knee)>>,
    <<<<"r","i","g","h","t","_","k","n","e","e","_","s","t","d">>, Std(right_knee)>>,
    <<<<"l","e","f","t","_","r","i","g","h","t","_","k","n","e","e","_","r","a","t","i","o">>, RatioEps(left_knee, right_knee)>>,
    <<<<"l","e","f","t","_","r","i","g","h","t","_","c","o","r","r","e","l","a","t","i","o","n">>,
      IF Len(left_total) > 1 /\ StdPositive(left_total) /\ StdPositive(right_total)
      THEN Corrcoef(left_total, right_total) ELSE Num(0)>>
  >>

RECURSIVE fe_frequency_loop(_, _, _)
fe_frequency_loop(data, i, features) ==
  IF i > Len(SENSOR_NAMES) THEN features
  ELSE fe_frequency_loop(data, i + 1,
         DictUpdate(features,
                    frequency_of_sensor(SENSOR_NAMES[i], Column(data, i), SAMPLE_RATE_HZ)))

fe_extract_frequency_features(data) == fe_frequency_loop(data, 1, <<>>)

\* feature_extraction.extract_features_from_window(data)
extract_features_from_window(data) ==
  DictUpdate(DictUpdate(DictUpdate(<<>>,
    fe_extract_statistical_features(data)),
    fe_extract_cross_sensor_features(data)),
    fe_extract_frequency_features(data))

(***************************************************************************)
(* feature_extraction.py: segmentation and the batch table;                *)
(* train_model.py: load_features.                                          *)
(***************************************************************************)
\* df[(df['time_ms'] >= lo) & (df['time_ms'] < hi)]
RowsBetween(df, lo, hi) ==
  SelectSeq(df, LAMBDA row : row.timestamp >= lo /\ row.timestamp < hi)

\* the while loop of segment_data, from current_start on
RECURSIVE segment_loop(_, _, _, _, _)
segment_loop(df, current_start, end_time, window_size_ms, stride_ms) ==
  IF current_start + window_size_ms <= end_time
  THEN LET window_df == RowsBetween(df, current_start, current_start + window_size_ms)
           rest == segment_loop(df, current_start + stride_ms, end_time,
                                window_size_ms, stride_ms)
       IN  IF EnoughSamples(Len(window_df)) THEN <<window_df>> \o rest ELSE rest
  ELSE <<>>

\* segment_data(df) with the default window and stride; df is not empty
segment_data(df) ==
  segment_loop(df, df[1].timestamp, df[Len(df)].timestamp,
               WINDOW_SIZE_MS, WINDOW_STRIDE_MS)

\* process_file(filepath, label): one feature dict per window, with the two
\* columns 'label' and 'subject' added last; None when no window is valid
process_file(df, label, subject) ==
  LET wins == segment_data(df)
  IN  IF wins = <<>> THEN <<>>
      ELSE [k \in 1..Len(wins) |->
              DictSet(DictSet(extract_features_from_window(ToArray(wins[k])),
                              <<"l","a","b","e","l">>, <<"str", label>>),
                      <<"s","u","b","j","e","c","t">>, <<"str", subject>>)]

\* the columns of pd.DataFrame(feature_list): the keys of the rows in order
\* of first appearance (all rows have the same keys here)
DataFrameColumns(feature_list) == DictKeys(feature_list[1])

\* train_model.load_features: feature_names, in file order
load_features(columns) ==
  SelectSeq(columns, LAMBDA c : c # <<"l","a","b","e","l">> /\ c # <<"s","u","b","j","e","c","t">>)

(***************************************************************************)
(* real_time_classifier.py                                                 *)
(***************************************************************************)
\* Python None for a feature array / for current_activity
None == <<>>

NoActivity == "None"

\* variant: a plain list, which never evicts
DequeAppend_Unbounded(d, x, maxlen) == Append(d, x)

\* collections.deque(maxlen=...).append(x)
DequeAppend(d, x, maxlen) ==
  IF Len(d) >= maxlen THEN Tail(d) \o <<x>> ELSE Append(d, x)

\* variant: the buffer is cleared after a classification
SlideWindow_Clear(buf) == <<>>

\* variant: one sample too few is removed
SlideWindow_Short(buf) ==
  IF Len(buf) <= STRIDE_SAMPLES - 1 THEN <<>>
  ELSE SubSeq(buf, STRIDE_SAMPLES, Len(buf))

\* for _ in range(STRIDE_SAMPLES): if self.buffer: self.buffer.popleft()
SlideWindow(buf) ==
  IF Len(buf) <= STRIDE_SAMPLES THEN <<>>
  ELSE SubSeq(buf, STRIDE_SAMPLES + 1, Len(buf))

\* RealTimeClassifier.extract_features_from_buffer
extract_features_from_buffer(buf) ==
  IF ~EnoughSamples(Len(buf)) THEN None
  ELSE features_to_array(fu_extract_all_features(buf))

\* variant: a scaler that takes a row of any width
scaler_accepts_AnyWidth(row, names) == TRUE

\* self.scaler.transform(features) in classify: the scaler was fitted on the
\* columns named by metadata['feature_names'] and raises ValueError for a
\* row with another number of features
scaler_accepts(row, names) == Len(row) = Len(names)

\* votes[pred] = votes.get(pred, 0) + conf, over the history in order
RECURSIVE CountVotes(_, _)
CountVotes(history, votes) ==
  IF history = <<>> THEN votes
  ELSE LET pred == Head(history)[1]
           conf == Head(history)[2]
           old  == IF DictHas(votes, pred) THEN DictGet(votes, pred) ELSE 0
       IN  CountVotes(Tail(history), DictSet(votes, pred, old + conf))

\* variant: the first key of the dict, whatever its value
MaxVote_FirstKey(votes) == votes[1][1]

\* max(votes, key=votes.get): the first key, in insertion order, whose value
\* is the largest
MaxVote(votes) ==
  LET best == CHOOSE i \in 1..Len(votes) :
                /\ \A j \in 1..Len(votes) : votes[j][2] <= votes[i][2]
                /\ \A j \in 1..(i - 1) : votes[j][2] < votes[i][2]
  IN  votes[best][1]

\* variant: smoothing already starts with two entries
smooth_prediction_Early(history, pred, conf) ==
  LET h == DequeAppend(history, <<pred, conf>>, SMOOTHING_WINDOW_SIZE)
  IN  [history |-> h,
       result  |-> IF Len(h) < 2 THEN pred ELSE MaxVote(CountVotes(h, <<>>))]

\* variant: no smoothing, the raw prediction is returned
smooth_prediction_Raw(history, pred, conf) ==
  [history |-> DequeAppend(history, <<pred, conf>>, SMOOTHING_WINDOW_SIZE),
   result  |-> pred]

\* RealTimeClassifier.smooth_prediction: the new history and the result
smooth_prediction(history, pred, conf) ==
  LET h == DequeAppend(history, <<pred, conf>>, SMOOTHING_WINDOW_SIZE)
  IN  [history |-> h,
       result  |-> IF Len(h) < 3 THEN pred ELSE MaxVote(CountVotes(h, <<>>))]

\* 'walking' in activity or 'stairs' in activity, on the class labels
IsGait(activity) ==
  activity \in {"walking_forward", "walking_backward", "stairs_up", "stairs_down"}

STEP_THRESHOLD == 2000

STEP_REFRACTORY_MS == 300

\* variant: no refractory interval, every crossing counts
detect_steps_NoRefractory(data, activity, count, last, current_time) ==
  IF ~IsGait(activity)
  THEN [step_count |-> count, last_step_time |-> last, detected |-> FALSE]
  ELSE LET total_pressure == data.values[L_P_Heel] + data.values[R_P_Heel]
       IN  IF total_pressure > STEP_THRESHOLD
           THEN [step_count |-> count + 1, last_step_time |-> current_time,
                 detected |-> TRUE]
           ELSE [step_count |-> count, last_step_time |-> last, detected |-> FALSE]

\* variant: the time of every crossing is remembered, counted or not
detect_steps_Touch(data, activity, count, last, current_time) ==
  IF ~IsGait(activity)
  THEN [step_count |-> count, last_step_time |-> last, detected |-> FALSE]
  ELSE LET total_pressure == data.values[L_P_Heel] + data.values[R_P_Heel]
       IN  IF total_pressure > STEP_THRESHOLD /\ current_time - last > STEP_REFRACTORY_MS
           THEN [step_count |-> count + 1, last_step_time |-> current_time,
                 detected |-> TRUE]
           ELSE IF total_pressure > STEP_THRESHOLD
           THEN [step_count |-> count, last_step_time |-> current_time,
                 detected |-> FALSE]
           ELSE [step_count |-> count, last_step_time |-> last, detected |-> FALSE]

\* RealTimeClassifier.detect_steps: the new counter state and the value
\* returned
detect_steps(data, activity, count, last, current_time) ==
  IF ~IsGait(activity)
  THEN [step_count |-> count, last_step_time |-> last, detected |-> FALSE]
  ELSE LET total_pressure == data.values[L_P_Heel] + data.values[R_P_Heel]
       IN  IF total_pressure > STEP_THRESHOLD /\ current_time - last > STEP_REFRACTORY_MS
           THEN [step_count |-> count + 1, last_step_time |-> current_time,
                 detected |-> TRUE]
           ELSE [step_count |-> count, last_step_time |-> last, detected |-> FALSE]

\* BLEClassifier._count_steps: no activity test; threshold and interval from
\* REALTIME['step_counting'] (2000, 300 ms), _last_step_time starts at 0
REALTIME_step_threshold == 2000

REALTIME_min_step_interval_ms == 300

ble_count_steps(data, count, last, current_time) ==
  LET total_pressure == data.values[L_P_Heel] + data.values[R_P_Heel]
  IN  IF total_pressure > REALTIME_step_threshold
         /\ current_time - last > REALTIME_min_step_interval_ms
      THEN [step_count |-> count + 1, last_step_time |-> current_time]
      ELSE [step_count |-> count, last_step_time |-> last]

(***************************************************************************)
(* auto_validator.py: LiveValidator.  Times are in tenths of a second.     *)
(***************************************************************************)
\* variant: every call moves _last_validation_time
should_validate_Touch(last, interval, elapsed_seconds) ==
  [last_validation_time |-> elapsed_seconds,
   result |-> elapsed_seconds >= last + interval]

\* LiveValidator.should_validate: the new _last_validation_time, the result
should_validate(last, interval, elapsed_seconds) ==
  IF elapsed_seconds >= last + interval
  THEN [last_validation_time |-> elapsed_seconds, result |-> TRUE]
  ELSE [last_validation_time |-> last, result |-> FALSE]


\* BLEClassifier._extract_features: the loop header reads SENSOR_NAMES, which
\* the assignment further down (SENSOR_NAMES = SENSORS['names']) makes a
\* local of the function, so the first statement raises
ble_extract_features(data) == "UnboundLocalError"

\* BLEClassifier._classify on the buffer: ("Unknown", 0.0) on a short
\* buffer, else whatever _extract_features does
ble_classify(buf) ==
  IF 10 * Len(buf) < 8 * WINDOW_SAMPLES THEN <<"Unknown", 0>>
  ELSE ble_extract_features(buf)
(***************************************************************************)
(* data_validation.py.  A frame is [columns, values]: the column names in  *)
(* order and, per column, its values by row.                               *)
(***************************************************************************)
time_ms == <<"t","i","m","e","_","m","s">>

DQ_max_acceptable_gap_ms == 50

DQ_stuck_sensor_threshold == 5

DQ_min_sensor_variance == 10

DQ_adc_saturation_threshold == 4000

DQ_adc_noise_threshold == 10

HasColumn(frame, name) == \E i \in 1..Len(frame.columns) : frame.columns[i] = name

\* len(df)
FrameLen(frame) ==
  IF frame.columns = <<>> THEN 0 ELSE Len(frame.values[frame.columns[1]])

\* int(x / y) for y > 0: truncation towards zero
IntQuotient(x, y) == IF x >= 0 THEN x \div y ELSE -((-x) \div y)

\* series.nunique()
NUnique(col) == Cardinality({col[i] : i \in 1..Len(col)})

\* DataQualityReport(filename=filename)
DataQualityReport(filename) ==
  [filename |-> filename, total_samples |-> 0, duration_ms |-> 0,
   expected_samples |-> 0, dropout_count |-> 0, dropout_rate |-> Num(0),
   stuck_sensors |-> <<>>, saturated_sensors |-> <<>>,
   disconnected_sensors |-> <<>>, missing_columns |-> <<>>,
   timestamp_issues |-> <<>>, outlier_count |-> 0, is_valid |-> TRUE,
   issues |-> <<>>, warnings |-> <<>>]

\* the sensors of SENSORS['names'], in order, that are columns of the frame
\* (for sensor in SENSORS['names']: if sensor not in df.columns: continue)
ColumnSensors(frame) ==
  SelectSeq(SENSOR_NAMES, LAMBDA s : HasColumn(frame, s))

\* check_adc_range: <<saturated, disconnected>>
check_adc_range(frame) ==
  LET saturated(col) ==
        /\ Max(col) > DQ_adc_saturation_threshold
        /\ 10 * Cardinality({i \in 1..Len(col) : col[i] > DQ_adc_saturation_threshold})
             > Len(col)
      disconnected(col) == Max(col) < DQ_adc_noise_threshold
  IN  <<SelectSeq(ColumnSensors(frame), LAMBDA s : saturated(frame.values[s])),
        SelectSeq(ColumnSensors(frame), LAMBDA s : disconnected(frame.values[s]))>>

\* series.std() < min_sensor_variance, with the sample standard deviation
\* (ddof = 1): n*sum(x^2) - sum(x)^2 < 10^2 * n * (n - 1); nan for one row
StdBelowMinimum(col) ==
  LET n == Len(col)
  IN  /\ n > 1
      /\ n * SumSq(col) - Sum(col) * Sum(col)
           < DQ_min_sensor_variance * DQ_min_sensor_variance * n * (n - 1)

\* check_stuck_sensors: one entry per stuck sensor, with the text's reason
check_stuck_sensors(frame) ==
  LET few(col) == NUnique(col) < DQ_stuck_sensor_threshold
      stuck(col) == few(col) \/ StdBelowMinimum(col)
      names == SelectSeq(ColumnSensors(frame), LAMBDA s : stuck(frame.values[s]))
  IN  [i \in 1..Len(names) |->
         IF few(frame.values[names[i]])
         THEN <<names[i], "unique values", NUnique(frame.values[names[i]])>>
         ELSE <<names[i], "low variance">>]

\* check_timestamps: <<is_valid, issues, dropout_count>>
check_timestamps(frame) ==
  IF ~HasColumn(frame, time_ms)
  THEN <<FALSE, <<"Missing timestamp column 'time_ms'">>, 0>>
  ELSE LET timestamps == frame.values[time_ms]
           n == Len(timestamps)
           gaps == {i \in 2..n : timestamps[i] - timestamps[i - 1] > DQ_max_acceptable_gap_ms}
           issues ==
             (IF \E i \in 2..n : timestamps[i] < timestamps[i - 1]
              THEN <<"Timestamps not monotonically increasing">> ELSE <<>>)
             \o (IF NUnique(timestamps) < n
                 THEN <<<<"duplicate timestamps", n - NUnique(timestamps)>>>>
                 ELSE <<>>)
             \o (IF gaps # {}
                 THEN <<<<"gaps", Cardinality(gaps),
                          Max([i \in 1..(n - 1) |-> timestamps[i + 1] - timestamps[i]])>>>>
                 ELSE <<>>)
       IN  <<issues = <<>>, issues, Cardinality(gaps)>>

\* check_required_columns
check_required_columns(frame) ==
  (IF ~HasColumn(frame, time_ms) THEN <<time_ms>> ELSE <<>>)
  \o SelectSeq(SENSOR_NAMES, LAMBDA s : ~HasColumn(frame, s))

\* calculate_dropout_rate
calculate_dropout_rate(frame) ==
  IF ~HasColumn(frame, time_ms) \/ FrameLen(frame) < 2 THEN Num(0)
  ELSE LET t == frame.values[time_ms]
           duration == t[Len(t)] - t[1]
           expected_samples == IntQuotient(duration, SAMPLE_INTERVAL_MS) + 1
       IN  IF expected_samples <= 0 THEN Num(0)
           ELSE Rat(expected_samples - FrameLen(frame), expected_samples)

\* validate_sensor_data after the required-columns check (lines 238-281)
LaterChecks(frame, report) ==
  LET has_time == HasColumn(frame, time_ms) /\ FrameLen(frame) > 0
      t == frame.values[time_ms]
      duration == IF has_time THEN t[Len(t)] - t[1] ELSE report.duration_ms
      expected == IF has_time THEN IntQuotient(duration, SAMPLE_INTERVAL_MS) + 1
                  ELSE report.expected_samples
      ts == check_timestamps(frame)
      rate == calculate_dropout_rate(frame)
      adc == check_adc_range(frame)
      stuck == check_stuck_sensors(frame)
      \* dropout_rate > max_dropout_rate (0.20)
      high == 5 * rate[2] > rate[3]
  IN  [report EXCEPT
         !.duration_ms = duration,
         !.expected_samples = expected,
         !.timestamp_issues = ts[2],
         !.dropout_count = ts[3],
         !.dropout_rate = rate,
         !.saturated_sensors = adc[1],
         !.disconnected_sensors = adc[2],
         !.stuck_sensors = stuck,
         !.issues = report.issues \o ts[2]
                      \o (IF adc[2] # <<>>
                          THEN <<<<"Possibly disconnected sensors", adc[2]>>>> ELSE <<>>)
                      \o (IF stuck # <<>> THEN <<<<"Stuck sensors", stuck>>>> ELSE <<>>)
                      \o (IF high THEN <<<<"High dropout rate", rate>>>> ELSE <<>>),
         !.warnings = IF adc[1] # <<>>
                      THEN <<<<"Saturated sensors", adc[1]>>>> ELSE <<>>,
         !.is_valid = report.is_valid /\ ~high]

\* variant: the checks go on after columns were found missing
validate_sensor_data_NoReturn(frame, filename) ==
  LET missing == check_required_columns(frame)
      report == [DataQualityReport(filename) EXCEPT
                   !.total_samples = FrameLen(frame),
                   !.missing_columns = missing,
                   !.issues = IF missing # <<>>
                              THEN <<<<"Missing columns", missing>>>> ELSE <<>>,
                   !.is_valid = missing = <<>>]
  IN  LaterChecks(frame, report)

\* validate_sensor_data
validate_sensor_data(frame, filename) ==
  LET missing == check_required_columns(frame)
      report == [DataQualityReport(filename) EXCEPT
                   !.total_samples = FrameLen(frame),
                   !.missing_columns = missing]
  IN  IF missing # <<>>
      THEN [report EXCEPT !.issues = <<<<"Missing columns", missing>>>>,
                          !.is_valid = FALSE]
      ELSE LaterChecks(frame, report)


(***************************************************************************)
(* unknown_class.py: ConfidenceThresholdClassifier.  Probabilities and the *)
(* threshold are in percent.                                               *)
(***************************************************************************)
\* variant: a row at the threshold is rejected too
ctc_predict_Inclusive(threshold, probs, predictions) ==
  [i \in 1..Len(predictions) |->
     IF Max(probs[i]) <= threshold THEN "unknown" ELSE predictions[i]] \o <<>>

\* ConfidenceThresholdClassifier.predict, given what the base model returns
\* for the (scaled) rows: probs = base_model.predict_proba(X_input),
\* predictions = base_model.predict(X_input);
\* np.where(max_probs < threshold, 'unknown', predictions)
ctc_predict(threshold, probs, predictions) ==
  [i \in 1..Len(predictions) |->
     IF Max(probs[i]) < threshold THEN "unknown" ELSE predictions[i]] \o <<>>

(***************************************************************************)
(* demo.py: SmartSocksDemo and LivePlotter.  Times are in milliseconds.    *)
(***************************************************************************)
\* SmartSocksDemo._count_steps: heel pressure above 2000, more than 0.3 s
\* after the last counted step; _last_step is created as 0 on first use
demo_count_steps(sensor_values, count, last, current_time) ==
  LET heel_pressure == sensor_values[L_P_Heel] + sensor_values[R_P_Heel]
  IN  IF heel_pressure > 2000 /\ current_time - last > 300
      THEN [step_count |-> count + 1, last_step |-> current_time]
      ELSE [step_count |-> count, last_step |-> last]

\* SmartSocksDemo._classify: "Unknown" without a model, on a short buffer
\* and when the extraction or the model raises; else what the model returns
demo_classify(has_model, buf, outcome) ==
  IF ~has_model \/ 10 * Len(buf) < 8 * SAMPLES_PER_WINDOW
  THEN <<"Unknown", 0>>
  ELSE outcome

\* the fields of SmartSocksDemo and LivePlotter that the threads use
DemoFields ==
  {"buffer", "current_activity", "confidence", "step_count", "_last_step",
   "plotter.timestamps", "plotter.data", "status_text"}

\* thread has read or written the given fields
Touch(log, thread, fields) ==
  [f \in DOMAIN log |-> IF f \in fields THEN log[f] \cup {thread} ELSE log[f]]
(***************************************************************************)
(* Bounds and inputs.                                                      *)
(***************************************************************************)
\* the live loop reads at most this many valid samples
MaxSamples == 76

\* at most this many reads without a valid line
MaxIdle == 1

\* a recording holds at most this many rows
MaxRecording == 102

\* the free-standing buffer receives at most this many samples
MaxPushes == 60

\* smooth_prediction is called at most this many times on one history
MaxPredictions == 6

\* a classifier object is connected at most this many times; its first
\* session reads at most MaxFirstSession samples, a later one MaxResumed
MaxSessions == 2

MaxFirstSession == 51

MaxResumed == 2

\* should_validate is called at most this many times on one validator
MaxValidatorCalls == 4

\* a frame given to validate_sensor_data holds this many rows
FrameRows == 6

\* a step detector is called at most this many times
MaxDetectorCalls == 3

\* a stream that is classified live and then segmented as a recording holds
\* at most this many samples
MaxReplay == 76

\* the demo's reader thread processes at most this many samples while the
\* plot is redrawn at most MaxFrames times
MaxDemoSamples == 51

MaxFrames == 1

\* a BLE client receives at most this many notifications that parse
MaxBlePackets == 52

\* a collector's thread receives at most this many samples
MaxCollected == 4

\* ConfidenceThresholdClassifier.predict is given at most this many rows
MaxBatch == 2

\* period of the synthetic gait signal, in samples
GaitPeriod == 7

\* wall clock (ms) when the classifier is constructed
StartTimeMs == 1000

\* serial readline timeout, ms (serial.Serial(port, baudrate, timeout=1))
READ_TIMEOUT_MS == 1000

Sources == {"still", "gait"}

\* wall-clock time between two valid reads: the nominal rate
ReadIntervals == {SAMPLE_INTERVAL_MS}

\* classes of the trained model and the confidences (percent) it reports
Classes == {"walking_forward", "sitting_floor"}

Confidences == {40, 90}

\* rows dropped from a recording: <<first missing index, how many>>
Dropouts == {<<0, 0>>, <<30, 5>>, <<30, 15>>, <<60, 12>>}

\* left and right heel readings given to a step detector, and the wall-clock
\* time (ms) between two calls
HeelReadings == {<<2500, 300>>, <<1000, 1000>>, <<300, 300>>}

StepGaps == {100, 200}

\* a decoded sample with the given heel readings
HeelSample(heels) ==
  [n |-> 0, timestamp |-> 0,
   values |-> [s \in {SENSOR_NAMES[k] : k \in 1..Len(SENSOR_NAMES)} |->
                 IF s = L_P_Heel THEN heels[1]
                 ELSE IF s = R_P_Heel THEN heels[2] ELSE 500]]

\* validation_interval_s given to LiveValidator (5 s is the default) and the
\* elapsed_seconds given to should_validate, in tenths of a second
ValidationIntervals == {20, 50}

ElapsedValues == {0, 20, 49, 50, 70, 99, 100}

\* the recordings given to validate_sensor_data: a clean one, one with
\* constant sensors, one with few ADC levels, one with broken timestamps, a
\* saturated and a disconnected sensor
FrameKinds == {"walk", "stuck", "quiet", "faulty"}

FrameValue(kind, name, r) ==
  IF name = time_ms
  THEN IF kind # "faulty" THEN (r - 1) * SAMPLE_INTERVAL_MS
       ELSE IF r = 3 THEN 20
       ELSE IF r = 4 THEN 200
       ELSE IF r = 5 THEN 180
       ELSE (r - 1) * SAMPLE_INTERVAL_MS + (IF r >= 6 THEN 300 ELSE 0)
  ELSE IF kind = "stuck" THEN 1000
  ELSE IF kind = "quiet" THEN 1000 + r
  ELSE IF kind = "faulty" /\ name = L_P_Ball THEN 4095
  ELSE IF kind = "faulty" /\ name = L_S_Knee THEN 5
  ELSE 500 + 100 * r + SensorIndex(name)

\* pd.DataFrame of a recording from which the columns in dropped were removed
Frame(kind, dropped) ==
  LET columns == SelectSeq(<<time_ms>> \o SENSOR_NAMES, LAMBDA c : c \notin dropped)
  IN  [columns |-> columns,
       values  |-> [c \in {columns[i] : i \in 1..Len(columns)} |->
                      [r \in 1..FrameRows |-> FrameValue(kind, c, r)]]]

\* thresholds given to ConfidenceThresholdClassifier (0.6 is the default;
\* the tests use 0.99 and 0.01), the rows predict_proba of the base model may
\* return over its three classes, and the labels its predict may return
Thresholds == {1, 60, 99}

ProbRows == {<<60, 30, 10>>, <<59, 31, 10>>, <<34, 33, 33>>, <<100, 0, 0>>,
             <<10, 30, 60>>}

BaseClasses == {"walking_forward", "sitting_floor", "stairs_up"}

\* the ADC reading of a sensor at sample number i of a source
Reading(src, i, sensor) ==
  LET ph == i % GaitPeriod
  IN  IF src = "still" THEN 1000
      ELSE IF sensor = L_P_Heel THEN (IF ph < 2 THEN 2500 ELSE 300)
      ELSE IF sensor = R_P_Heel THEN (IF ph >= 4 /\ ph < 6 THEN 2500 ELSE 300)
      ELSE IF sensor = L_S_Knee THEN 1000 + 10 * ph
      ELSE 500

\* the decoded sample number i (i = 1, 2, ...): read_sensor_data's dict;
\* n is the arrival number, kept to identify the sample
SampleAt(src, i, t) ==
  [n |-> i, timestamp |-> t,
   values |-> [s \in {SENSOR_NAMES[k] : k \in 1..Len(SENSOR_NAMES)} |->
                 Reading(src, i, s)]]

\* a recording of count rows, one every SAMPLE_INTERVAL_MS, from which the
\* rows drop[1] .. drop[1]+drop[2]-1 are missing
Recording(src, count, drop) ==
  [r \in 1..count |->
     LET i == IF r >= drop[1] /\ drop[2] > 0 THEN r + drop[2] ELSE r
     IN  SampleAt(src, i, (i - 1) * SAMPLE_INTERVAL_MS)]

\* get_feature_names(): the assembler's names, sorted
DummyData == [r \in 1..50 |-> [i \in 1..Len(SENSOR_NAMES) |-> 0]]

fu_insertion_names ==
  DictKeys(DictUpdate(DictUpdate(DictUpdate(<<>>,
    fu_extract_statistical_features(DummyData)),
    fu_extract_cross_sensor_features(DummyData)),
    fu_extract_frequency_features(DummyData, SAMPLE_RATE_HZ)))

get_feature_names == sorted(fu_insertion_names)

\* the feature_names a training run of this repository stores in the model
\* metadata: load_features of the table written by process_file
TrainingFeatureNames ==
  load_features(DictKeys(extract_features_from_window(DummyData)))

\* metadata['feature_names'] of the model files a classifier may be given
ModelFeatureNames == {get_feature_names, fu_insertion_names, TrainingFeatureNames}

(***************************************************************************)
(* State.                                                                  *)
(***************************************************************************)
VARIABLES
  mode,                \* which program runs
  pc,                  \* its position
  \* RealTimeClassifier fields
  feature_names, buffer, prediction_history, total_predictions,
  current_activity, step_count, last_step_time,
  \* locals of run() and the last result of extract_features_from_buffer
  sample_count, classification_count, sensor_data, prediction, confidence,
  smoothed_pred, features,
  \* environment of the live loop
  now, read_interval, source, idle_reads,
  \* history: the window last given to the extractor, the arrival numbers of
  \* the windows the loop classified (the last two)
  featurized, window_log,
  \* the arrival numbers of every window the loop classified, in order
  online_windows,
  \* the smoother and step-counter fields of a second run of the loop that
  \* is fed the same samples at the same times
  twin,
  \* batch tool
  df, windows, table, train_feature_names, online_row, offline_row,
  \* the calls of smooth_prediction since the history was empty:
  \* <<prediction, confidence, returned label>>
  smooth_trace,
  \* which class's step counter is exercised, and its calls so far:
  \* <<heel-pressure sum, current_time, activity, returned value>>
  detector, step_trace,
  \* how many times connect() has returned True on this object
  session,
  \* LiveValidator fields, and its should_validate calls so far:
  \* <<elapsed_seconds, result>>
  validation_interval_s, last_validation_time, validate_trace,
  \* the frame given to validate_sensor_data and the report it returned
  frame, report,
  \* ConfidenceThresholdClassifier: its threshold, what the base model
  \* returned for the rows of the last predict call, and that call's result
  threshold, probs, base_predictions, result,
  \* SmartSocksDemo with a LivePlotter: whether a model was loaded, the
  \* plotter's deques and status text, the position of FuncAnimation's
  \* callback, the x it computed, whether the x and y it last gave to
  \* set_data had the same length, how many frames it has drawn, and which
  \* thread has read or written each field
  has_model, plotter_timestamps, plotter_data, status_text, ui_pc, ui_x,
  drawn, frames, touched,
  \* BLESmartSocksClient: the user callback, the notifications received, and
  \* whether the callback has raised
  data_callback, packets_received, raised,
  \* DataCollector / LegDataCollector: which class, its data_buffer (arrival
  \* numbers), is_recording, samples_collected, the sample the collection
  \* thread has read and not yet appended (0: none), every sample received
  \* with the position of the main thread at that moment, and the list
  \* stop_recording returned
  collector_class, data_buffer, is_recording, samples_collected, held,
  received, recorded

liveVars == <<feature_names, buffer, prediction_history, total_predictions,
              current_activity, step_count, last_step_time, sample_count,
              classification_count, sensor_data, prediction, confidence,
              smoothed_pred, features, now, read_interval, source, idle_reads,
              featurized, window_log, online_windows, twin>>

batchVars == <<df, windows, table, train_feature_names, online_row, offline_row>>

validatorVars == <<validation_interval_s, last_validation_time, validate_trace>>

reportVars == <<frame, report>>

rejectVars == <<threshold, probs, base_predictions, result>>

demoVars == <<has_model, plotter_timestamps, plotter_data, status_text, ui_pc,
              ui_x, drawn, frames, touched>>

bleVars == <<data_callback, packets_received, raised>>

collectorVars == <<collector_class, data_buffer, is_recording,
                   samples_collected, held, received, recorded>>

extVars == <<rejectVars, demoVars, bleVars, collectorVars>>

auxVars == <<smooth_trace, detector, step_trace, session, validatorVars,
             reportVars, extVars>>

vars == <<mode, pc, liveVars, batchVars, auxVars>>

NoSample == [n |-> 0, timestamp |-> 0,
             values |-> [s \in {SENSOR_NAMES[k] : k \in 1..Len(SENSOR_NAMES)} |-> 0]]

\* the fields of a fresh classifier that a second run keeps for itself
TwinFresh ==
  [prediction_history |-> <<>>, current_activity |-> NoActivity,
   step_count |-> 0, last_step_time |-> 0]

\* the fields set by RealTimeClassifier.__init__ and the locals of run()
LiveFresh ==
  /\ buffer = <<>>
  /\ prediction_history = <<>>
  /\ total_predictions = 0
  /\ current_activity = NoActivity
  /\ step_count = 0
  /\ last_step_time = 0
  /\ sample_count = 0
  /\ classification_count = 0
  /\ sensor_data = NoSample
  /\ prediction = NoActivity
  /\ confidence = 0
  /\ smoothed_pred = NoActivity
  /\ features = None
  /\ idle_reads = 0
  /\ featurized = <<>>
  /\ window_log = <<>>
  /\ online_windows = <<>>
  /\ twin = TwinFresh

BatchIdle ==
  /\ df = <<>>
  /\ windows = <<>>
  /\ table = <<>>
  /\ train_feature_names = <<>>
  /\ online_row = <<>>
  /\ offline_row = <<>>

ValidatorIdle ==
  /\ validation_interval_s = 50
  /\ last_validation_time = -50
  /\ validate_trace = <<>>

ReportIdle ==
  /\ frame = Frame("walk", {})
  /\ report = DataQualityReport("")

RejectIdle ==
  /\ threshold = 60
  /\ probs = <<>>
  /\ base_predictions = <<>>
  /\ result = <<>>

DemoIdle ==
  /\ has_model = FALSE
  /\ plotter_timestamps = <<>>
  /\ plotter_data = <<>>
  /\ status_text = "Waiting for data..."
  /\ ui_pc = "idle"
  /\ ui_x = 0
  /\ drawn = "nothing"
  /\ frames = 0
  /\ touched = [f \in DemoFields |-> {}]

BleIdle ==
  /\ data_callback = "None"
  /\ packets_received = 0
  /\ raised = FALSE

CollectorIdle ==
  /\ collector_class = "DataCollector"
  /\ data_buffer = <<>>
  /\ is_recording = FALSE
  /\ samples_collected = 0
  /\ held = 0
  /\ received = <<>>
  /\ recorded = <<>>

ExtIdle ==
  /\ RejectIdle
  /\ DemoIdle
  /\ BleIdle
  /\ CollectorIdle

AuxIdle ==
  /\ smooth_trace = <<>>
  /\ detector = "RealTimeClassifier"
  /\ step_trace = <<>>
  /\ session = 0
  /\ ValidatorIdle
  /\ ReportIdle
  /\ ExtIdle

\* after RealTimeClassifier(model_path): _load_model took the metadata
InitLive ==
  /\ mode = "live"
  /\ pc = "constructed"
  /\ feature_names \in ModelFeatureNames
  /\ source \in Sources
  /\ read_interval \in ReadIntervals
  /\ now = StartTimeMs
  /\ LiveFresh
  /\ BatchIdle
  /\ AuxIdle

\* a free-standing window buffer: deque(maxlen=WINDOW_SAMPLES)
InitBuffer ==
  /\ mode = "buffer"
  /\ pc = "open"
  /\ feature_names = get_feature_names
  /\ source = "still"
  /\ read_interval = SAMPLE_INTERVAL_MS
  /\ now = StartTimeMs
  /\ LiveFresh
  /\ BatchIdle
  /\ AuxIdle

\* feature_extraction.py given one recording
InitBatch ==
  /\ mode = "batch"
  /\ pc = "file"
  /\ feature_names = get_feature_names
  /\ source \in Sources
  /\ read_interval = SAMPLE_INTERVAL_MS
  /\ now = StartTimeMs
  /\ LiveFresh
  /\ \E count \in 1..MaxRecording, drop \in Dropouts :
       /\ drop[2] = 0 \/ drop[1] <= count
       /\ df = Recording(source, count, drop)
  /\ windows = <<>>
  /\ table = <<>>
  /\ train_feature_names = <<>>
  /\ online_row = <<>>
  /\ offline_row = <<>>
  /\ AuxIdle

\* a RealTimeClassifier whose smooth_prediction is called directly
InitSmoother ==
  /\ mode = "smoother"
  /\ pc = "open"
  /\ feature_names = get_feature_names
  /\ source = "still"
  /\ read_interval = SAMPLE_INTERVAL_MS
  /\ now = StartTimeMs
  /\ LiveFresh
  /\ BatchIdle
  /\ AuxIdle

\* a fresh step counter of either classifier, called directly
InitSteps ==
  /\ mode = "steps"
  /\ pc = "open"
  /\ feature_names = get_feature_names
  /\ source = "gait"
  /\ read_interval = SAMPLE_INTERVAL_MS
  /\ now = StartTimeMs
  /\ LiveFresh
  /\ BatchIdle
  /\ smooth_trace = <<>>
  /\ detector \in {"RealTimeClassifier", "BLEClassifier"}
  /\ step_trace = <<>>
  /\ session = 0
  /\ ValidatorIdle
  /\ ReportIdle
  /\ ExtIdle

\* after RealTimeClassifier(model_path), for a caller that connects, runs
\* and disconnects the same object more than once
InitRestart ==
  /\ mode = "restart"
  /\ pc = "constructed"
  /\ feature_names = get_feature_names
  /\ source \in Sources
  /\ read_interval = SAMPLE_INTERVAL_MS
  /\ now = StartTimeMs
  /\ LiveFresh
  /\ BatchIdle
  /\ AuxIdle

\* after LiveValidator(validation_interval_s)
InitValidator ==
  /\ mode = "validator"
  /\ pc = "open"
  /\ feature_names = get_feature_names
  /\ source = "still"
  /\ read_interval = SAMPLE_INTERVAL_MS
  /\ now = StartTimeMs
  /\ LiveFresh
  /\ BatchIdle
  /\ smooth_trace = <<>>
  /\ detector = "RealTimeClassifier"
  /\ step_trace = <<>>
  /\ session = 0
  /\ validation_interval_s \in ValidationIntervals
  /\ last_validation_time = -validation_interval_s
  /\ validate_trace = <<>>
  /\ ReportIdle
  /\ ExtIdle

\* a recording read into a DataFrame, some of its columns dropped
InitValidate ==
  /\ mode = "validate"
  /\ pc = "frame"
  /\ feature_names = get_feature_names
  /\ source = "still"
  /\ read_interval = SAMPLE_INTERVAL_MS
  /\ now = StartTimeMs
  /\ LiveFresh
  /\ BatchIdle
  /\ smooth_trace = <<>>
  /\ detector = "RealTimeClassifier"
  /\ step_trace = <<>>
  /\ session = 0
  /\ ValidatorIdle
  /\ \E kind \in FrameKinds,
        dropped \in SUBSET ({time_ms} \cup {SENSOR_NAMES[k] : k \in 1..Len(SENSOR_NAMES)}) :
       frame = Frame(kind, dropped)
  /\ report = DataQualityReport("")
  /\ ExtIdle


\* after ConfidenceThresholdClassifier(base_model, threshold)
InitReject ==
  /\ mode = "reject"
  /\ pc = "open"
  /\ feature_names = get_feature_names
  /\ source = "still"
  /\ read_interval = SAMPLE_INTERVAL_MS
  /\ now = StartTimeMs
  /\ LiveFresh
  /\ BatchIdle
  /\ smooth_trace = <<>>
  /\ detector = "RealTimeClassifier"
  /\ step_trace = <<>>
  /\ session = 0
  /\ ValidatorIdle
  /\ ReportIdle
  /\ threshold \in Thresholds
  /\ probs = <<>>
  /\ base_predictions = <<>>
  /\ result = <<>>
  /\ DemoIdle
  /\ BleIdle
  /\ CollectorIdle

\* after RealTimeClassifier(model_path), for a stream that is also written
\* to a file: df holds the samples the device sends, some of them lost
InitReplay ==
  /\ mode = "replay"
  /\ pc = "constructed"
  /\ feature_names = get_feature_names
  /\ source = "gait"
  /\ read_interval = SAMPLE_INTERVAL_MS
  /\ now = StartTimeMs
  /\ LiveFresh
  /\ \E drop \in Dropouts : df = Recording(source, MaxReplay, drop)
  /\ windows = <<>>
  /\ table = <<>>
  /\ train_feature_names = <<>>
  /\ online_row = <<>>
  /\ offline_row = <<>>
  /\ AuxIdle

\* two RealTimeClassifier objects on the same model, run on the same stream
InitTwin ==
  /\ mode = "twin"
  /\ pc = "constructed"
  /\ feature_names = get_feature_names
  /\ source \in Sources
  /\ read_interval = SAMPLE_INTERVAL_MS
  /\ now = StartTimeMs
  /\ LiveFresh
  /\ BatchIdle
  /\ AuxIdle

\* SmartSocksDemo(model_path, port or playback_file) with a plotter, after
\* run_live / run_playback has started its thread and called plotter.show()
InitDemo ==
  /\ mode = "demo"
  /\ pc = "sample"
  /\ feature_names = get_feature_names
  /\ source = "gait"
  /\ read_interval = SAMPLE_INTERVAL_MS
  /\ now = StartTimeMs
  /\ buffer = <<>>
  /\ prediction_history = <<>>
  /\ total_predictions = 0
  /\ current_activity = "Unknown"
  /\ step_count = 0
  /\ last_step_time = 0
  /\ sample_count = 0
  /\ classification_count = 0
  /\ sensor_data = NoSample
  /\ prediction = NoActivity
  /\ confidence = 0
  /\ smoothed_pred = NoActivity
  /\ features = None
  /\ idle_reads = 0
  /\ featurized = <<>>
  /\ window_log = <<>>
  /\ online_windows = <<>>
  /\ twin = TwinFresh
  /\ BatchIdle
  /\ smooth_trace = <<>>
  /\ detector = "RealTimeClassifier"
  /\ step_trace = <<>>
  /\ session = 0
  /\ ValidatorIdle
  /\ ReportIdle
  /\ RejectIdle
  /\ has_model \in BOOLEAN
  /\ plotter_timestamps = <<>>
  /\ plotter_data = <<>>
  /\ status_text = "Waiting for data..."
  /\ ui_pc = "idle"
  /\ ui_x = 0
  /\ drawn = "nothing"
  /\ frames = 0
  /\ touched = [f \in DemoFields |-> {}]
  /\ BleIdle
  /\ CollectorIdle

\* BLEClassifier(model_path, device_name) after connect() and
\* start_data_collection(): main passes no data_callback; a caller may have
\* set client.data_callback = client._on_data
InitBle ==
  /\ mode = "ble"
  /\ pc = "collecting"
  /\ feature_names = get_feature_names
  /\ source = "gait"
  /\ read_interval = SAMPLE_INTERVAL_MS
  /\ now = StartTimeMs
  /\ buffer = <<>>
  /\ prediction_history = <<>>
  /\ total_predictions = 0
  /\ current_activity = "Unknown"
  /\ step_count = 0
  /\ last_step_time = 0
  /\ sample_count = 0
  /\ classification_count = 0
  /\ sensor_data = NoSample
  /\ prediction = NoActivity
  /\ confidence = 0
  /\ smoothed_pred = NoActivity
  /\ features = None
  /\ idle_reads = 0
  /\ featurized = <<>>
  /\ window_log = <<>>
  /\ online_windows = <<>>
  /\ twin = TwinFresh
  /\ BatchIdle
  /\ smooth_trace = <<>>
  /\ detector = "BLEClassifier"
  /\ step_trace = <<>>
  /\ session = 0
  /\ ValidatorIdle
  /\ ReportIdle
  /\ RejectIdle
  /\ DemoIdle
  /\ data_callback \in {"None", "_on_data"}
  /\ packets_received = 0
  /\ raised = FALSE
  /\ CollectorIdle

\* a collector after connect() and start_collection_thread(): the main
\* thread has not called start_recording yet
InitCollector ==
  /\ mode = "collector"
  /\ pc = "idle"
  /\ feature_names = get_feature_names
  /\ source = "still"
  /\ read_interval = SAMPLE_INTERVAL_MS
  /\ now = StartTimeMs
  /\ LiveFresh
  /\ BatchIdle
  /\ smooth_trace = <<>>
  /\ detector = "RealTimeClassifier"
  /\ step_trace = <<>>
  /\ session = 0
  /\ ValidatorIdle
  /\ ReportIdle
  /\ RejectIdle
  /\ DemoIdle
  /\ BleIdle
  /\ collector_class \in {"DataCollector", "LegDataCollector"}
  /\ data_buffer = <<>>
  /\ is_recording = FALSE
  /\ samples_collected = 0
  /\ held = 0
  /\ received = <<>>
  /\ recorded = <<>>
(***************************************************************************)
(* RealTimeClassifier: connect, run, disconnect.                           *)
(***************************************************************************)
\* the modes in which a RealTimeClassifier is connected and run
LiveModes == {"live", "restart", "replay", "twin"}

\* how many valid samples the current run() may still read
SampleBudget ==
  IF mode \in {"live", "twin"} THEN MaxSamples
  ELSE IF mode = "replay" THEN Len(df)
  ELSE IF session <= 1 THEN MaxFirstSession ELSE MaxResumed

liveFields == <<feature_names, buffer, prediction_history, total_predictions,
                current_activity, step_count, last_step_time>>

runLocals == <<sample_count, classification_count, sensor_data, prediction,
               confidence, smoothed_pred>>

liveEnv == <<now, read_interval, source, idle_reads>>

\* connect() returns True
Connect ==
  /\ mode \in LiveModes /\ pc = "constructed"
  /\ pc' = "connected"
  /\ session' = session + 1
  /\ UNCHANGED <<mode, extVars, smooth_trace, detector, step_trace, validatorVars, reportVars,
                 liveVars, batchVars>>

\* connect() called again after disconnect(): a new serial.Serial, nothing else
Reconnect ==
  /\ mode = "restart" /\ pc = "disconnected"
  /\ session < MaxSessions
  /\ pc' = "connected"
  /\ session' = session + 1
  /\ UNCHANGED <<mode, extVars, smooth_trace, detector, step_trace, validatorVars, reportVars,
                 liveVars, batchVars>>

\* connect() returns False: main returns 1
ConnectFail ==
  /\ mode = "live" /\ pc = "constructed"
  /\ pc' = "failed"
  /\ UNCHANGED <<mode, auxVars, liveVars, batchVars>>

\* run() up to the loop: start_time, sample_count = 0, classification_count = 0
RunStart ==
  /\ mode \in LiveModes /\ pc = "connected"
  /\ pc' = "running"
  /\ sample_count' = 0
  /\ classification_count' = 0
  /\ UNCHANGED <<mode, auxVars, liveFields, sensor_data, prediction, confidence,
                 smoothed_pred, features, liveEnv, featurized, window_log, online_windows, twin,
                 batchVars>>

\* one iteration in which read_sensor_data returns None: continue
ReadNone ==
  /\ mode = "live" /\ pc = "running"
  /\ idle_reads < MaxIdle
  /\ idle_reads' = idle_reads + 1
  /\ now' = now + READ_TIMEOUT_MS
  /\ UNCHANGED <<mode, auxVars, pc, liveFields, runLocals, features, read_interval,
                 source, featurized, window_log, online_windows, twin, batchVars>>

\* what read_sensor_data returns for the next valid line: the next sample of
\* the source or, for a stream given as a recording, its next row
NextSample ==
  IF mode = "replay" THEN df[sample_count + 1]
  ELSE SampleAt(source, sample_count + 1, sample_count * SAMPLE_INTERVAL_MS)

\* the last two entries of the log with one more
LogWindow(log, buf) ==
  LET w == [i \in 1..Len(buf) |-> buf[i].n]
  IN  IF Len(log) >= 2 THEN <<log[Len(log)], w>> ELSE Append(log, w)

\* lines 308-319 in a second run whose classifier returned p2, c2 for the
\* same window: smooth, detect steps, update the activity
TwinIteration(other, data, t, p2, c2) ==
  LET sm == smooth_prediction(other.prediction_history, p2, c2)
      st == detect_steps(data, sm.result, other.step_count,
                         other.last_step_time, t)
  IN  [prediction_history |-> sm.history, current_activity |-> sm.result,
       step_count |-> st.step_count, last_step_time |-> st.last_step_time]

\* one iteration in which read_sensor_data returns a sample (lines 297-335);
\* an exception raised by classify ends the loop, no except clause takes it
ReadValid ==
  /\ mode \in LiveModes /\ pc = "running"
  /\ sample_count < SampleBudget
  /\ LET t    == now + read_interval
         data == NextSample
         buf  == DequeAppend(buffer, data, WINDOW_SAMPLES)
     IN
       /\ now' = t
       /\ sample_count' = sample_count + 1
       /\ sensor_data' = data
       /\ IF Len(buf) >= WINDOW_SAMPLES
          THEN LET feats == extract_features_from_buffer(buf)
               IN  /\ features' = feats
                   /\ IF feats # None /\ ~scaler_accepts(feats, feature_names)
                      THEN /\ pc' = "crashed"
                           /\ buffer' = buf
                      ELSE /\ pc' = pc
                           /\ buffer' = SlideWindow(buf)
                   /\ IF feats # None /\ ~scaler_accepts(feats, feature_names)
                      THEN /\ featurized' = buf
                           /\ UNCHANGED <<prediction, confidence, prediction_history,
                                          smoothed_pred, step_count, last_step_time,
                                          current_activity, classification_count,
                                          total_predictions, window_log, online_windows, twin>>
                      ELSE IF feats # None
                      THEN \E p \in Classes, c \in Confidences :
                             LET sm == smooth_prediction(prediction_history, p, c)
                                 st == detect_steps(data, sm.result, step_count,
                                                    last_step_time, t)
                             IN  /\ prediction' = p
                                 /\ confidence' = c
                                 /\ prediction_history' = sm.history
                                 /\ smoothed_pred' = sm.result
                                 /\ step_count' = st.step_count
                                 /\ last_step_time' = st.last_step_time
                                 /\ current_activity' = sm.result
                                 /\ classification_count' = classification_count + 1
                                 /\ total_predictions' = total_predictions + 1
                                 /\ featurized' = buf
                                 /\ window_log' = LogWindow(window_log, buf)
                                 /\ online_windows' =
                                      Append(online_windows,
                                             [i \in 1..Len(buf) |-> buf[i].n])
                                 /\ IF mode = "twin"
                                    THEN \E p2 \in Classes, c2 \in Confidences :
                                           twin' = TwinIteration(twin, data, t, p2, c2)
                                    ELSE twin' = twin
                      ELSE UNCHANGED <<prediction, confidence, prediction_history,
                                       smoothed_pred, step_count, last_step_time,
                                       current_activity, classification_count,
                                       total_predictions, featurized, window_log, online_windows, twin>>
          ELSE /\ buffer' = buf
               /\ pc' = pc
               /\ UNCHANGED <<features, prediction, confidence, prediction_history,
                              smoothed_pred, step_count, last_step_time,
                              current_activity, classification_count,
                              total_predictions, featurized, window_log, online_windows, twin>>
  /\ UNCHANGED <<mode, auxVars, feature_names, read_interval, source, idle_reads,
                 batchVars>>

\* the ValueError raised in classify leaves run(); main's finally clause
\* calls disconnect() and the exception ends the program
Abort ==
  /\ mode = "live" /\ pc = "crashed"
  /\ pc' = "aborted"
  /\ UNCHANGED <<mode, auxVars, liveVars, batchVars>>

\* variant: the samples left in the buffer are classified when the loop ends
Stop_Flush ==
  /\ mode \in LiveModes /\ pc = "running"
  /\ pc' = "stopped"
  /\ IF buffer # <<>>
     THEN \E p \in Classes, c \in Confidences :
            LET sm == smooth_prediction(prediction_history, p, c)
            IN  /\ prediction' = p
                /\ confidence' = c
                /\ prediction_history' = sm.history
                /\ smoothed_pred' = sm.result
                /\ current_activity' = sm.result
                /\ classification_count' = classification_count + 1
                /\ total_predictions' = total_predictions + 1
                /\ buffer' = <<>>
     ELSE UNCHANGED <<prediction, confidence, prediction_history, smoothed_pred,
                      current_activity, classification_count, total_predictions,
                      buffer>>
  /\ UNCHANGED <<mode, auxVars, feature_names, step_count, last_step_time,
                 sample_count, sensor_data, features, liveEnv, featurized,
                 window_log, online_windows, twin, batchVars>>

\* the duration has elapsed or Ctrl+C: leave the loop, print the summary
Stop ==
  /\ mode \in LiveModes /\ pc = "running"
  /\ pc' = "stopped"
  /\ UNCHANGED <<mode, auxVars, liveVars, batchVars>>

\* disconnect()
Disconnect ==
  /\ mode \in LiveModes /\ pc = "stopped"
  /\ pc' = "disconnected"
  /\ UNCHANGED <<mode, auxVars, liveVars, batchVars>>

\* variant: an extractor that consumes the deque while reading it
ExtractFeaturesFromBuffer_Consuming ==
  /\ mode = "live" /\ pc \in {"connected", "stopped"}
  /\ features' = extract_features_from_buffer(buffer)
  /\ featurized' = IF features' # None THEN buffer ELSE featurized
  /\ buffer' = IF features' # None THEN <<>> ELSE buffer
  /\ pc' = pc
  /\ UNCHANGED <<mode, auxVars, feature_names, prediction_history, total_predictions,
                 current_activity, step_count, last_step_time, runLocals,
                 liveEnv, window_log, online_windows, twin, batchVars>>

\* a direct call of extract_features_from_buffer() while run() is not active
ExtractFeaturesFromBuffer ==
  /\ mode = "live" /\ pc \in {"connected", "stopped"}
  /\ features' = extract_features_from_buffer(buffer)
  /\ featurized' = IF features' # None THEN buffer ELSE featurized
  /\ pc' = pc
  /\ UNCHANGED <<mode, auxVars, liveFields, runLocals, liveEnv, window_log, online_windows, twin, batchVars>>

(***************************************************************************)
(* The window buffer on its own: appends and slides in any order.          *)
(***************************************************************************)
\* self.buffer.append(sensor_data)
BufferAppend ==
  /\ mode = "buffer" /\ pc = "open"
  /\ sample_count < MaxPushes
  /\ sample_count' = sample_count + 1
  /\ buffer' = DequeAppend(buffer,
                 SampleAt(source, sample_count + 1, sample_count * SAMPLE_INTERVAL_MS),
                 WINDOW_SAMPLES)
  /\ UNCHANGED <<mode, auxVars, pc, feature_names, prediction_history, total_predictions,
                 current_activity, step_count, last_step_time,
                 classification_count, sensor_data, prediction, confidence,
                 smoothed_pred, features, liveEnv, featurized, window_log, online_windows, twin,
                 batchVars>>

\* the slide loop of run(), lines 333-335
BufferSlide ==
  /\ mode = "buffer" /\ pc = "open"
  /\ buffer # <<>>
  /\ buffer' = SlideWindow(buffer)
  /\ UNCHANGED <<mode, auxVars, pc, feature_names, prediction_history, total_predictions,
                 current_activity, step_count, last_step_time, runLocals,
                 features, liveEnv, featurized, window_log, online_windows, twin, batchVars>>

(***************************************************************************)
(* The batch tool and the training loader.                                 *)
(***************************************************************************)
\* process_file(filepath): segment, then one feature row per window
ProcessFile ==
  /\ mode = "batch" /\ pc = "file"
  /\ windows' = segment_data(df)
  /\ table' = process_file(df, "walking_forward", "S01")
  /\ pc' = "extracted"
  /\ UNCHANGED <<mode, auxVars, liveVars, df, train_feature_names, online_row, offline_row>>

\* train_model.load_features on the table written by main()
LoadFeatures ==
  /\ mode = "batch" /\ pc = "extracted"
  /\ table # <<>>
  /\ train_feature_names' = load_features(DataFrameColumns(table))
  /\ pc' = "loaded"
  /\ UNCHANGED <<mode, auxVars, liveVars, df, windows, table, online_row, offline_row>>

\* the samples of window k of the recording, replayed to the online
\* extractor (extract_features_from_buffer on a buffer holding them)
OnlineReplay ==
  /\ mode = "batch" /\ pc = "loaded"
  /\ \E k \in 1..Len(windows) :
       /\ online_row' = extract_features_from_buffer(windows[k])
       /\ offline_row' = table[k]
  /\ pc' = "compared"
  /\ UNCHANGED <<mode, auxVars, liveVars, df, windows, table, train_feature_names>>

(***************************************************************************)
(* The smoother on its own: smooth_prediction on any predictions.          *)
(***************************************************************************)
\* smoothed_pred = self.smooth_prediction(prediction, confidence)
SmoothPrediction ==
  /\ mode = "smoother" /\ pc = "open"
  /\ total_predictions < MaxPredictions
  /\ \E p \in Classes, c \in Confidences :
       LET sm == smooth_prediction(prediction_history, p, c)
       IN  /\ prediction' = p
           /\ confidence' = c
           /\ prediction_history' = sm.history
           /\ smoothed_pred' = sm.result
           /\ smooth_trace' = Append(smooth_trace, <<p, c, sm.result>>)
  /\ total_predictions' = total_predictions + 1
  /\ UNCHANGED <<mode, extVars, pc, detector, step_trace, session, validatorVars, reportVars,
                 feature_names, buffer, current_activity, step_count,
                 last_step_time, sample_count, classification_count,
                 sensor_data, features, liveEnv, featurized, window_log, online_windows, twin,
                 batchVars>>

(***************************************************************************)
(* The step counters on their own.                                         *)
(***************************************************************************)
StepCommon(heels, act, t, returned) ==
  /\ sample_count < MaxDetectorCalls
  /\ sample_count' = sample_count + 1
  /\ now' = t
  /\ sensor_data' = HeelSample(heels)
  /\ current_activity' = act
  /\ step_trace' = Append(step_trace, <<heels[1] + heels[2], t, act, returned>>)
  /\ UNCHANGED <<mode, extVars, pc, detector, smooth_trace, session, validatorVars, reportVars,
                 feature_names, buffer,
                 prediction_history, total_predictions, classification_count,
                 prediction, confidence, smoothed_pred, features,
                 read_interval, source, idle_reads, featurized, window_log, online_windows, twin,
                 batchVars>>

\* self.detect_steps(sensor_data, activity) at wall-clock time now + gap
DetectSteps ==
  /\ mode = "steps" /\ detector = "RealTimeClassifier"
  /\ \E heels \in HeelReadings, act \in Classes, gap \in StepGaps :
       LET st == detect_steps(HeelSample(heels), act, step_count,
                              last_step_time, now + gap)
       IN  /\ step_count' = st.step_count
           /\ last_step_time' = st.last_step_time
           /\ StepCommon(heels, act, now + gap, st.detected)

\* BLEClassifier._count_steps(sensor_data) at wall-clock time now + gap
CountSteps ==
  /\ mode = "steps" /\ detector = "BLEClassifier"
  /\ \E heels \in HeelReadings, act \in Classes, gap \in StepGaps :
       LET st == ble_count_steps(HeelSample(heels), step_count,
                                 last_step_time, now + gap)
       IN  /\ step_count' = st.step_count
           /\ last_step_time' = st.last_step_time
           /\ StepCommon(heels, act, now + gap, None)

(***************************************************************************)
(* LiveValidator.                                                          *)
(***************************************************************************)
\* validator.should_validate(elapsed_seconds)
ShouldValidate ==
  /\ mode = "validator" /\ pc = "open"
  /\ Len(validate_trace) < MaxValidatorCalls
  /\ \E elapsed_seconds \in ElapsedValues :
       LET r == should_validate(last_validation_time, validation_interval_s,
                                elapsed_seconds)
       IN  /\ last_validation_time' = r.last_validation_time
           /\ validate_trace' = Append(validate_trace, <<elapsed_seconds, r.result>>)
  /\ UNCHANGED <<mode, extVars, pc, validation_interval_s, smooth_trace, detector,
                 step_trace, session, reportVars, liveVars, batchVars>>

(***************************************************************************)
(* validate_sensor_data on one frame.                                      *)
(***************************************************************************)
\* report = validate_sensor_data(df, "test.csv")
ValidateSensorData ==
  /\ mode = "validate" /\ pc = "frame"
  /\ report' = validate_sensor_data(frame, "test.csv")
  /\ pc' = "validated"
  /\ UNCHANGED <<mode, extVars, frame, smooth_trace, detector, step_trace, session,
                 validatorVars, liveVars, batchVars>>


(***************************************************************************)
(* The rejecting classifier on its own.                                    *)
(***************************************************************************)
\* result = rejector.predict(X), for a batch X of n rows; predict keeps no
\* state, so one call on each classifier is followed
Predict ==
  /\ mode = "reject" /\ pc = "open"
  /\ \E n \in 1..MaxBatch :
       \E p \in [1..n -> ProbRows], b \in [1..n -> BaseClasses] :
         /\ probs' = p
         /\ base_predictions' = b
         /\ result' = ctc_predict(threshold, p, b)
  /\ pc' = "predicted"
  /\ UNCHANGED <<mode, threshold, demoVars, bleVars, collectorVars, smooth_trace, detector, step_trace, session,
                 validatorVars, reportVars, liveVars, batchVars>>

(***************************************************************************)
(* A stream classified live and then segmented as a recording.             *)
(***************************************************************************)
\* segment_data on the file holding the samples the loop has read
SegmentStream ==
  /\ mode = "replay" /\ pc = "disconnected"
  /\ sample_count >= 1
  /\ windows' = segment_data(SubSeq(df, 1, sample_count))
  /\ pc' = "segmented"
  /\ UNCHANGED <<mode, auxVars, liveVars, df, table, train_feature_names,
                 online_row, offline_row>>

(***************************************************************************)
(* The demo with a plot: the thread that reads samples runs                *)
(* _process_sample, the main thread runs the animation callback.           *)
(***************************************************************************)
basicVars == <<mode, feature_names, prediction_history, total_predictions,
               classification_count, prediction, smoothed_pred, features,
               read_interval, source, idle_reads, featurized, window_log,
               online_windows, twin, batchVars, smooth_trace, detector,
               step_trace, session, validatorVars, reportVars, rejectVars,
               has_model, bleVars, collectorVars>>

\* variant: the callback builds the status text from the demo's fields
PlotterUpdate_Status ==
  /\ mode = "demo" /\ ui_pc = "idle"
  /\ frames < MaxFrames
  /\ status_text' = <<current_activity, confidence, step_count>>
  /\ touched' = Touch(touched, "ui",
                      {"plotter.timestamps", "current_activity", "confidence",
                       "step_count", "status_text"})
  /\ IF plotter_timestamps = <<>>
     THEN /\ frames' = frames + 1
          /\ UNCHANGED <<ui_pc, ui_x>>
     ELSE /\ ui_x' = Len(plotter_timestamps)
          /\ ui_pc' = "lines"
          /\ UNCHANGED frames
  /\ UNCHANGED <<basicVars, pc, buffer, current_activity, confidence, step_count,
                 last_step_time, sample_count, sensor_data, now,
                 plotter_timestamps, plotter_data, drawn>>

\* _process_sample up to the display update: append to the buffer, count
\* steps, classify and slide when the buffer is full (lines 259-271)
ProcessSample ==
  /\ mode = "demo" /\ pc = "sample"
  /\ sample_count < MaxDemoSamples
  /\ LET t    == now + read_interval
         data == SampleAt(source, sample_count + 1, sample_count * SAMPLE_INTERVAL_MS)
         buf  == DequeAppend(buffer, data.values, SAMPLES_PER_WINDOW)
         st   == demo_count_steps(data.values, step_count, last_step_time, t)
     IN  /\ now' = t
         /\ sample_count' = sample_count + 1
         /\ sensor_data' = data
         /\ step_count' = st.step_count
         /\ last_step_time' = st.last_step
         /\ IF Len(buf) >= SAMPLES_PER_WINDOW
            THEN \E outcome \in (Classes \X Confidences) \cup {<<"Unknown", 0>>} :
                   /\ current_activity' = demo_classify(has_model, buf, outcome)[1]
                   /\ confidence' = demo_classify(has_model, buf, outcome)[2]
                   /\ buffer' = SlideWindow(buf)
                   /\ touched' = Touch(touched, "reader",
                                       {"buffer", "step_count", "_last_step",
                                        "current_activity", "confidence"})
            ELSE /\ buffer' = buf
                 /\ touched' = Touch(touched, "reader",
                                     {"buffer", "step_count", "_last_step"})
                 /\ UNCHANGED <<current_activity, confidence>>
  /\ pc' = "display"
  /\ UNCHANGED <<basicVars, plotter_timestamps, plotter_data, status_text, ui_pc,
                 ui_x, drawn, frames>>

\* the display update of _process_sample: plotter.add_data, update_status
\* (lines 273-277)
UpdateDisplay ==
  /\ mode = "demo" /\ pc = "display"
  /\ plotter_timestamps' = DequeAppend(plotter_timestamps, sensor_data.timestamp, 200)
  /\ plotter_data' = DequeAppend(plotter_data, sensor_data.values[L_P_Heel], 200)
  /\ status_text' = <<current_activity, confidence, step_count>>
  /\ touched' = Touch(touched, "reader",
                      {"plotter.timestamps", "plotter.data", "current_activity",
                       "confidence", "step_count", "status_text"})
  /\ pc' = "sample"
  /\ UNCHANGED <<basicVars, buffer, current_activity, confidence, step_count,
                 last_step_time, sample_count, sensor_data, now, ui_pc, ui_x,
                 drawn, frames>>

\* LivePlotter.update up to x = np.arange(len(self.timestamps)); it returns
\* at once while there is no data (lines 94-97)
PlotterUpdate ==
  /\ mode = "demo" /\ ui_pc = "idle"
  /\ frames < MaxFrames
  /\ touched' = Touch(touched, "ui", {"plotter.timestamps"})
  /\ IF plotter_timestamps = <<>>
     THEN /\ frames' = frames + 1
          /\ UNCHANGED <<ui_pc, ui_x>>
     ELSE /\ ui_x' = Len(plotter_timestamps)
          /\ ui_pc' = "lines"
          /\ UNCHANGED frames
  /\ UNCHANGED <<basicVars, pc, buffer, current_activity, confidence, step_count,
                 last_step_time, sample_count, sensor_data, now,
                 plotter_timestamps, plotter_data, status_text, drawn>>

\* the loop of LivePlotter.update: set_data(x, list(self.data[sensor]))
\* (lines 99-104)
PlotterSetData ==
  /\ mode = "demo" /\ ui_pc = "lines"
  /\ drawn' = IF Len(plotter_data) = ui_x THEN "same length"
               ELSE "different lengths"
  /\ touched' = Touch(touched, "ui", {"plotter.data"})
  /\ ui_pc' = "idle"
  /\ frames' = frames + 1
  /\ UNCHANGED <<basicVars, pc, buffer, current_activity, confidence, step_count,
                 last_step_time, sample_count, sensor_data, now,
                 plotter_timestamps, plotter_data, status_text, ui_x>>

(***************************************************************************)
(* The BLE client in classification mode.                                  *)
(***************************************************************************)
\* _notification_handler for one notification, with the user callback it
\* calls (BLEClassifier._on_data when that is the callback); no file is
\* recorded
NotificationHandler ==
  /\ mode = "ble" /\ pc = "collecting"
  /\ packets_received' = packets_received + 1
  /\ \E parses \in BOOLEAN :
       IF ~parses
       THEN /\ idle_reads < MaxIdle
            /\ idle_reads' = idle_reads + 1
            /\ now' = now + read_interval
            /\ UNCHANGED <<buffer, sample_count, sensor_data, step_count,
                           last_step_time, current_activity, confidence,
                           classification_count, raised>>
       ELSE
         LET t    == now + read_interval
             data == SampleAt(source, sample_count + 1, sample_count * SAMPLE_INTERVAL_MS)
             buf  == DequeAppend(buffer, data, WINDOW_SAMPLES)
             st   == ble_count_steps(data, step_count, last_step_time, t)
         IN  /\ sample_count < MaxBlePackets
             /\ sample_count' = sample_count + 1
             /\ now' = t
             /\ sensor_data' = data
             /\ UNCHANGED idle_reads
             /\ IF data_callback = "_on_data"
                THEN /\ step_count' = st.step_count
                     /\ last_step_time' = st.last_step_time
                     /\ IF Len(buf) >= WINDOW_SAMPLES
                        THEN IF ble_classify(buf) = "UnboundLocalError"
                             THEN /\ raised' = TRUE
                                  /\ buffer' = buf
                                  /\ UNCHANGED <<current_activity, confidence,
                                                 classification_count>>
                             ELSE /\ current_activity' = ble_classify(buf)[1]
                                  /\ confidence' = ble_classify(buf)[2]
                                  /\ classification_count' = classification_count + 1
                                  /\ buffer' = SlideWindow(buf)
                                  /\ UNCHANGED raised
                        ELSE /\ buffer' = buf
                             /\ UNCHANGED <<current_activity, confidence,
                                            classification_count, raised>>
                ELSE /\ buffer' = buf
                     /\ UNCHANGED <<step_count, last_step_time, current_activity,
                                    confidence, classification_count, raised>>
  /\ UNCHANGED <<mode, pc, feature_names, prediction_history, total_predictions,
                 prediction, smoothed_pred, features, read_interval, source,
                 featurized, window_log, online_windows, twin, batchVars,
                 smooth_trace, detector, step_trace, session, validatorVars,
                 reportVars, rejectVars, demoVars, data_callback, collectorVars>>

\* stop_data_collection() and disconnect(): main's finally clause
StopDataCollection ==
  /\ mode = "ble" /\ pc = "collecting"
  /\ pc' = "disconnected"
  /\ UNCHANGED <<mode, auxVars, liveVars, batchVars>>

(***************************************************************************)
(* The collectors: the collection thread and the main thread that starts   *)
(* and stops a recording.                                                  *)
(***************************************************************************)
otherVars == <<mode, liveVars, batchVars, smooth_trace, detector, step_trace,
               session, validatorVars, reportVars, rejectVars, demoVars,
               bleVars, collector_class>>

\* collection_loop: sample = self.read_sample() returns a sample
ReadSample ==
  /\ mode = "collector" /\ held = 0
  /\ Len(received) < MaxCollected
  /\ held' = Len(received) + 1
  /\ received' = Append(received, <<Len(received) + 1, pc>>)
  /\ UNCHANGED <<otherVars, pc, data_buffer, is_recording, samples_collected,
                 recorded>>

\* collection_loop: self.data_buffer.append(sample), and
\* samples_collected += 1 while is_recording
AppendSample ==
  /\ mode = "collector" /\ held # 0
  /\ data_buffer' = DequeAppend(data_buffer, held, 10000)
  /\ samples_collected' = IF is_recording THEN samples_collected + 1
                          ELSE samples_collected
  /\ held' = 0
  /\ UNCHANGED <<otherVars, pc, is_recording, received, recorded>>

\* start_recording up to samples_collected = 0: write START, set the flag
StartRecording ==
  /\ mode = "collector" /\ pc = "idle"
  /\ is_recording' = TRUE
  /\ samples_collected' = 0
  /\ pc' = IF collector_class = "DataCollector" THEN "starting" ELSE "recording"
  /\ UNCHANGED <<otherVars, data_buffer, held, received, recorded>>

\* DataCollector.start_recording: self.data_buffer.clear()
ClearBuffer ==
  /\ mode = "collector" /\ pc = "starting"
  /\ data_buffer' = <<>>
  /\ pc' = "recording"
  /\ UNCHANGED <<otherVars, is_recording, samples_collected, held, received,
                 recorded>>

\* stop_recording up to the copy: write STOP, clear the flag
StopRecording ==
  /\ mode = "collector" /\ pc = "recording"
  /\ is_recording' = FALSE
  /\ pc' = "stopping"
  /\ UNCHANGED <<otherVars, data_buffer, samples_collected, held, received,
                 recorded>>

\* stop_recording: data = list(self.data_buffer); return data
CopyBuffer ==
  /\ mode = "collector" /\ pc = "stopping"
  /\ recorded' = data_buffer
  /\ pc' = "returned"
  /\ UNCHANGED <<otherVars, data_buffer, is_recording, samples_collected, held,
                 received>>
NextLive ==
  \/ Connect \/ ConnectFail \/ RunStart \/ ReadNone \/ ReadValid
  \/ Stop \/ Disconnect \/ ExtractFeaturesFromBuffer \/ Abort

NextBuffer == BufferAppend \/ BufferSlide

NextBatch == ProcessFile \/ LoadFeatures \/ OnlineReplay

NextSmoother == SmoothPrediction

NextSteps == DetectSteps \/ CountSteps

NextRestart ==
  \/ Connect \/ RunStart \/ ReadValid \/ Stop \/ Disconnect \/ Reconnect

NextValidator == ShouldValidate

NextValidate == ValidateSensorData

NextReject == Predict

NextReplay ==
  \/ Connect \/ RunStart \/ ReadValid \/ Stop \/ Disconnect \/ SegmentStream

NextTwin == Connect \/ RunStart \/ ReadValid \/ Stop \/ Disconnect

NextDemo == ProcessSample \/ UpdateDisplay \/ PlotterUpdate \/ PlotterSetData

NextBle == NotificationHandler \/ StopDataCollection

NextCollector ==
  \/ ReadSample \/ AppendSample \/ StartRecording \/ ClearBuffer
  \/ StopRecording \/ CopyBuffer

Init ==
  \/ InitLive \/ InitBuffer \/ InitBatch \/ InitSmoother \/ InitSteps
  \/ InitRestart \/ InitValidator \/ InitValidate \/ InitReject \/ InitReplay
  \/ InitTwin \/ InitDemo \/ InitBle
  \/ InitCollector

Next ==
  \/ NextLive \/ NextBuffer \/ NextBatch \/ NextSmoother \/ NextSteps
  \/ NextRestart \/ NextValidator \/ NextValidate \/ NextReject
  \/ NextReplay \/ NextTwin \/ NextDemo \/ NextBle
  \/ NextCollector

Spec == Init /\ [][Next]_vars

SpecLive == InitLive /\ [][NextLive]_vars

SpecBuffer == InitBuffer /\ [][NextBuffer]_vars

SpecBatch == InitBatch /\ [][NextBatch]_vars

SpecSmoother == InitSmoother /\ [][NextSmoother]_vars

SpecSteps == InitSteps /\ [][NextSteps]_vars

SpecRestart == InitRestart /\ [][NextRestart]_vars

SpecValidator == InitValidator /\ [][NextValidator]_vars

SpecValidate == InitValidate /\ [][NextValidate]_vars


SpecReject == InitReject /\ [][NextReject]_vars

SpecReplay == InitReplay /\ [][NextReplay]_vars

SpecTwin == InitTwin /\ [][NextTwin]_vars

SpecDemo == InitDemo /\ [][NextDemo]_vars

SpecBle == InitBle /\ [][NextBle]_vars

SpecCollector == InitCollector /\ [][NextCollector]_vars
(***************************************************************************)
(* Properties.                                                             *)
(***************************************************************************)
FeatureColumns(row) ==
  SelectSeq(row, LAMBDA p : p[1] # <<"l","a","b","e","l">> /\ p[1] # <<"s","u","b","j","e","c","t">>)

RowNames(row) == [i \in 1..Len(row) |-> row[i][1]]

SeqRange(s) == {s[i] : i \in 1..Len(s)}

\* C1: train/serve parity.  The feature vector the batch path computes for a
\* window has the same feature names as the one the online path computes
\* for the same samples and, name by name, the same values.
C1_TrainServeParity ==
  (mode = "batch" /\ pc = "compared") =>
     LET off == FeatureColumns(offline_row)
     IN  /\ SeqRange(RowNames(off)) = SeqRange(RowNames(online_row))
         /\ \A i \in 1..Len(off) : \A j \in 1..Len(online_row) :
              off[i][1] = online_row[j][1] => ValEq(off[i][2], online_row[j][2])

\* C2: the training table's feature columns, in file order, are the online
\* row's names in the same (sorted) order: position i holds the same feature.
C2_SameColumnOrder ==
  (mode = "batch" /\ pc = "compared") =>
     /\ train_feature_names = RowNames(online_row)
     /\ train_feature_names = sorted(train_feature_names)

\* C3: a classifier constructed with a model whose feature-name list differs
\* from the assembler's names never starts and never classifies a window.
C3_MismatchFailsAtLoad ==
  (mode = "live" /\ feature_names # get_feature_names) =>
     /\ pc \notin {"connected", "running", "stopped", "disconnected"}
     /\ total_predictions = 0

Uniform(rows) ==
  \A r \in 1..Len(rows) : rows[r].timestamp = (r - 1) * SAMPLE_INTERVAL_MS

\* C6: for a recording of N uniformly spaced rows segment_data returns
\* floor((N - W)/S) + 1 windows when N >= W, and none when N < W.
C6_OfflineWindowCount ==
  (mode = "batch" /\ pc # "file" /\ Uniform(df)) =>
     Len(windows) =
       IF Len(df) >= SAMPLES_PER_WINDOW
       THEN (Len(df) - SAMPLES_PER_WINDOW) \div STRIDE_SAMPLES + 1
       ELSE 0

\* C7: no feature vector comes from a window of fewer than 0.8*W samples,
\* on either path: every window segment_data returns and every buffer the
\* online extractor turned into features holds at least 0.8*W samples, and
\* the batch table has exactly one row per such window.
C7_NoShortWindow ==
  /\ \A k \in 1..Len(windows) : 10 * Len(windows[k]) >= 8 * SAMPLES_PER_WINDOW
  /\ (mode = "batch" /\ pc # "file") => Len(table) = Len(windows)
  /\ features # None => 10 * Len(featurized) >= 8 * WINDOW_SAMPLES
  /\ \A i \in 1..Len(window_log) : 10 * Len(window_log[i]) >= 8 * WINDOW_SAMPLES

\* a time window of the recording holds some rows but too few, and was
\* skipped, while another one was turned into a feature row
C7_Witness ==
  /\ mode = "batch" /\ pc = "extracted"
  /\ table # <<>>
  /\ \E k \in 0..3 :
       LET lo == df[1].timestamp + k * WINDOW_STRIDE_MS
           w  == RowsBetween(df, lo, lo + WINDOW_SIZE_MS)
       IN  /\ lo + WINDOW_SIZE_MS <= df[Len(df)].timestamp
           /\ w # <<>>
           /\ 10 * Len(w) < 8 * SAMPLES_PER_WINDOW
           /\ \A j \in 1..Len(windows) : windows[j] # w

ArrivalNumbers(buf) == [i \in 1..Len(buf) |-> buf[i].n]

\* C8: the window buffer never holds more than W samples and holds them in
\* arrival order; an append always succeeds, adds the new sample at the end,
\* and evicts exactly the oldest sample when the buffer already holds W.
C8_BoundedFifo ==
  /\ [](/\ Len(buffer) <= WINDOW_SAMPLES
        /\ \A i \in 1..(Len(buffer) - 1) : buffer[i].n < buffer[i + 1].n)
  /\ [][(mode = "buffer" /\ sample_count' = sample_count + 1) =>
          /\ buffer' # <<>>
          /\ buffer'[Len(buffer')].n = sample_count'
          /\ IF Len(buffer) = WINDOW_SAMPLES
             THEN SubSeq(buffer', 1, Len(buffer') - 1) = Tail(buffer)
             ELSE SubSeq(buffer', 1, Len(buffer') - 1) = buffer]_vars

C8_Witness ==
  /\ mode = "buffer"
  /\ sample_count = WINDOW_SAMPLES + 1
  /\ ArrivalNumbers(buffer) = [i \in 1..WINDOW_SAMPLES |-> i + 1]

\* C9: consecutive windows of the live loop overlap by half: the second is
\* the last W/2 samples of the first followed by the next W/2 arrivals, in
\* order; after a classification the buffer holds exactly the samples that
\* arrived since the middle of the last window.
C9_HalfOverlap ==
  (mode = "live" /\ pc \in {"running", "stopped", "disconnected"}) =>
     /\ \A k \in 1..Len(window_log) :
          /\ Len(window_log[k]) = WINDOW_SAMPLES
          /\ \A i \in 1..WINDOW_SAMPLES : window_log[k][i] = window_log[k][1] + i - 1
     /\ Len(window_log) = 2 =>
          /\ SubSeq(window_log[2], 1, WINDOW_SAMPLES \div 2)
               = SubSeq(window_log[1], WINDOW_SAMPLES \div 2 + 1, WINDOW_SAMPLES)
          /\ window_log[2][WINDOW_SAMPLES] = window_log[1][WINDOW_SAMPLES] + WINDOW_SAMPLES \div 2
     /\ window_log # <<>> =>
          LET last == window_log[Len(window_log)]
          IN  /\ sample_count - last[WINDOW_SAMPLES] < WINDOW_SAMPLES \div 2
              /\ ArrivalNumbers(buffer) =
                   [i \in 1..(sample_count - last[WINDOW_SAMPLES] + WINDOW_SAMPLES \div 2) |->
                      last[WINDOW_SAMPLES] - WINDOW_SAMPLES \div 2 + i]
     /\ window_log = <<>> =>
          ArrivalNumbers(buffer) = [i \in 1..sample_count |-> i]

C9_Witness ==
  /\ mode = "live" /\ pc = "running"
  /\ Len(window_log) = 2
  /\ sample_count > window_log[2][WINDOW_SAMPLES]

\* C10: while the history holds fewer than 3 entries after the append,
\* smooth_prediction returns the new raw prediction, whatever the history.
C10_RawBelowThree ==
  (mode = "live" /\ Len(prediction_history) \in {1, 2}) =>
     /\ prediction_history[Len(prediction_history)] = <<prediction, confidence>>
     /\ smoothed_pred = prediction

\* the history holds another label with a higher confidence than the new one
C10_Witness ==
  /\ mode = "live"
  /\ Len(prediction_history) = 2
  /\ prediction_history[1][1] # prediction_history[2][1]
  /\ prediction_history[1][2] > prediction_history[2][2]
  /\ smoothed_pred = prediction_history[2][1]


(***************************************************************************)
(* The smoother.                                                           *)
(***************************************************************************)
HistoryLabels(history) == {history[i][1] : i \in 1..Len(history)}

\* the sum of the confidences of the entries of the history with a label
VoteSum(history, label) ==
  Sum([i \in 1..Len(history) |->
         IF history[i][1] = label THEN history[i][2] ELSE 0])

\* the labels whose sum is the largest
TopLabels(history) ==
  {l \in HistoryLabels(history) :
     \A m \in HistoryLabels(history) : VoteSum(history, m) <= VoteSum(history, l)}

\* the position of the latest entry with a label
LastOccurrence(history, label) ==
  CHOOSE i \in 1..Len(history) :
    /\ history[i][1] = label
    /\ \A j \in (i + 1)..Len(history) : history[j][1] # label

\* C11: when the history holds 3 or more entries after the append, the label
\* smooth_prediction returns appears in the history and no label of the
\* history has a larger sum of confidences.
C11_MaxConfidenceSum ==
  (mode = "smoother" /\ Len(prediction_history) >= 3) =>
     smoothed_pred \in TopLabels(prediction_history)

\* the vote overrides the raw prediction
C11_Witness ==
  /\ mode = "smoother"
  /\ Len(prediction_history) >= 3
  /\ Cardinality(HistoryLabels(prediction_history)) = 2
  /\ Cardinality(TopLabels(prediction_history)) = 1
  /\ smoothed_pred # prediction

\* C12: when two or more labels tie for the largest sum of confidences, the
\* label smooth_prediction returns is the tied label whose latest entry in
\* the history is the most recent.
C12_TieMostRecent ==
  (mode = "smoother" /\ Len(prediction_history) >= 3
     /\ Cardinality(TopLabels(prediction_history)) >= 2) =>
     \A l \in TopLabels(prediction_history) :
        LastOccurrence(prediction_history, l)
          <= LastOccurrence(prediction_history, smoothed_pred)

\* C13: from an empty history, up to 5 predictions of one label with the
\* high confidence return that label at every call; and when the third of
\* them is another label with the lower confidence, every call, the third
\* and the later ones included, still returns the majority label.
C13_SmootherStability ==
  mode = "smoother" =>
    \A l \in Classes, m \in Classes, hi \in Confidences, lo \in Confidences :
      LET n == Len(smooth_trace)
          same == \A i \in 1..n : smooth_trace[i][1] = l /\ smooth_trace[i][2] = hi
          flip == /\ n >= 3
                  /\ smooth_trace[3][1] = m /\ smooth_trace[3][2] = lo
                  /\ \A i \in (1..n) \ {3} :
                       smooth_trace[i][1] = l /\ smooth_trace[i][2] = hi
      IN  (n <= 5 /\ m # l /\ lo < hi /\ (same \/ flip)) =>
             \A i \in 1..n : smooth_trace[i][3] = l

\* five calls, the third one a low-confidence flip
C13_Witness ==
  /\ mode = "smoother"
  /\ Len(smooth_trace) = 5
  /\ \E l \in Classes, m \in Classes :
       /\ m # l
       /\ smooth_trace[3][1] = m
       /\ smooth_trace[3][2] < smooth_trace[2][2]
       /\ \A i \in {1, 2, 4, 5} :
            smooth_trace[i][1] = l /\ smooth_trace[i][2] = smooth_trace[2][2]
       /\ smoothed_pred = l

(***************************************************************************)
(* The step counters.                                                      *)
(***************************************************************************)
\* the calls whose heel-pressure sum is above the threshold
Crossings(trace) == SelectSeq(trace, LAMBDA e : e[1] > 2000)

\* C14: on a fresh step counter with a gait activity at every call, two
\* samples with a heel-pressure sum above 2000 raise the step count by
\* exactly one when their times differ by less than 300 ms and by exactly
\* two when their times differ by more than 300 ms.
C14_StepRefractory ==
  (mode = "steps" /\ Len(Crossings(step_trace)) = 2
     /\ \A i \in 1..Len(step_trace) : IsGait(step_trace[i][3])) =>
     LET c == Crossings(step_trace)
     IN  /\ c[2][2] - c[1][2] < 300 => step_count = 1
         /\ c[2][2] - c[1][2] > 300 => step_count = 2

\* two crossings more than 300 ms apart, with a call below the threshold
\* between them, counted as two steps
C14_Witness ==
  /\ mode = "steps"
  /\ Len(step_trace) = 3
  /\ \A i \in 1..3 : IsGait(step_trace[i][3])
  /\ step_trace[1][1] > 2000 /\ step_trace[2][1] <= 2000 /\ step_trace[3][1] > 2000
  /\ step_trace[3][2] - step_trace[1][2] > 300
  /\ step_count = 2

\* C15: in the live loop every arriving sample is presented to the step
\* detector: a sample with a heel-pressure sum above 2000 that arrives, during
\* a gait activity, more than 300 ms after the last counted step raises the
\* step count at that sample, whether or not it completes a window.
C15_StepAtSampleLatency ==
  [][(/\ mode = "live" /\ pc = "running"
      /\ sample_count' = sample_count + 1
      /\ sensor_data'.values[L_P_Heel] + sensor_data'.values[R_P_Heel] > 2000
      /\ IsGait(current_activity')
      /\ now' - last_step_time > 300)
     => step_count' = step_count + 1]_vars

(***************************************************************************)
(* Sessions.                                                               *)
(***************************************************************************)
\* C16: when a session restarts (disconnect, then connect), the window
\* buffer and the smoother history are empty and step_count and
\* last_step_time have their initial values before the first sample of the
\* new session is processed, and a window classified in the new session
\* holds samples of the new session only.
C16_RestartResets ==
  (mode = "restart" /\ session >= 2) =>
     /\ (pc = "connected" \/ (pc = "running" /\ sample_count = 0)) =>
          /\ buffer = <<>>
          /\ prediction_history = <<>>
          /\ step_count = 0
          /\ last_step_time = 0
     /\ (pc = "running" /\ classification_count > 0) =>
          sample_count >= WINDOW_SAMPLES

(***************************************************************************)
(* Failures of a classification attempt.                                   *)
(***************************************************************************)
\* C17: when a classification cannot proceed, because the buffer holds fewer
\* than 0.8 * W samples or because the feature row does not fit the model,
\* the classifier reports the activity "Unknown" with confidence 0, and no
\* exception leaves the processing loop.
C17_UnknownNotException ==
  [][mode = "live" =>
       /\ pc' # "crashed"
       /\ (pc \in {"connected", "stopped"} /\ pc' = pc
             /\ 10 * Len(buffer) < 8 * WINDOW_SAMPLES) =>
            (current_activity' = "Unknown" /\ confidence' = 0)]_vars

(***************************************************************************)
(* Degenerate statistics.                                                  *)
(***************************************************************************)
\* C18: for a window in which a channel is constant, the feature row has
\* that channel's std equal to 0 and its skewness and kurtosis are numbers,
\* not NaN; and a correlation feature one of whose two series is constant
\* is exactly 0.
C18_ConstantChannelGuards ==
  (mode = "live" /\ features # None) =>
    LET data == ToArray(featurized)
        col(name) == Column(data, SensorIndex(name))
        left_pressure_sum  == ColAdd(col(LEFT_PRESSURE[1]), col(LEFT_PRESSURE[2]))
        right_pressure_sum == ColAdd(col(RIGHT_PRESSURE[1]), col(RIGHT_PRESSURE[2]))
        left_total  == ColAdd(left_pressure_sum, col(L_S_Knee))
        right_total == ColAdd(right_pressure_sum, col(R_S_Knee))
    IN  /\ \A k \in 1..Len(SENSOR_NAMES) :
             ~StdPositive(Column(data, k)) =>
               /\ DictGet(features, SENSOR_NAMES[k] \o <<"_","s","t","d">>) = Num(0)
               /\ NaN \notin FloatsOf(DictGet(features, SENSOR_NAMES[k] \o <<"_","s","k","e","w","n","e","s","s">>))
               /\ NaN \notin FloatsOf(DictGet(features, SENSOR_NAMES[k] \o <<"_","k","u","r","t","o","s","i","s">>))
        /\ (~StdPositive(left_pressure_sum) \/ ~StdPositive(col(L_S_Knee))) =>
             DictGet(features, <<"l","e","f","t","_","p","r","e","s","s","u","r","e","_","s","t","r","e","t","c","h","_","c","o","r","r">>) = Num(0)
        /\ (~StdPositive(right_pressure_sum) \/ ~StdPositive(col(R_S_Knee))) =>
             DictGet(features, <<"r","i","g","h","t","_","p","r","e","s","s","u","r","e","_","s","t","r","e","t","c","h","_","c","o","r","r">>) = Num(0)
        /\ (~StdPositive(left_total) \/ ~StdPositive(right_total)) =>
             DictGet(features, <<"l","e","f","t","_","r","i","g","h","t","_","c","o","r","r","e","l","a","t","i","o","n">>) = Num(0)

(***************************************************************************)
(* Validation cadence.                                                     *)
(***************************************************************************)
\* the elapsed_seconds of the latest call before call k that returned True
LastTrueBefore(trace, k) ==
  trace[CHOOSE j \in 1..(k - 1) :
          /\ trace[j][2]
          /\ \A i \in (j + 1)..(k - 1) : ~trace[i][2]][1]

NonDecreasing(trace) ==
  \A i \in 1..(Len(trace) - 1) : trace[i][1] <= trace[i + 1][1]

\* C19: should_validate returns True on the first call, and afterwards True
\* exactly when elapsed_seconds is at least the elapsed_seconds of the last
\* call that returned True plus the interval; a call that returns False
\* leaves the validator unchanged; so for non-decreasing elapsed values two
\* True results are at least one interval apart.
C19_ValidationCadence ==
  mode = "validator" =>
    LET n == Len(validate_trace)
    IN  /\ n >= 1 => validate_trace[1][2]
        /\ \A k \in 2..n :
             validate_trace[k][2] <=>
               validate_trace[k][1] >=
                 LastTrueBefore(validate_trace, k) + validation_interval_s
        /\ n >= 1 => last_validation_time = LastTrueBefore(validate_trace, n + 1)
        /\ NonDecreasing(validate_trace) =>
             \A i \in 1..n, j \in 1..n :
               (i < j /\ validate_trace[i][2] /\ validate_trace[j][2]) =>
                  validate_trace[j][1] - validate_trace[i][1] >= validation_interval_s

\* the calls of the repository's test: 0, 2, 4.9, 5, 7, 10 s up to the bound,
\* with a False call between two True ones
C19_Witness ==
  /\ mode = "validator"
  /\ validation_interval_s = 50
  /\ Len(validate_trace) = 4
  /\ validate_trace = <<<<0, TRUE>>, <<20, FALSE>>, <<49, FALSE>>, <<50, TRUE>>>>
  /\ last_validation_time = 50

(***************************************************************************)
(* Missing columns.                                                        *)
(***************************************************************************)
RequiredColumns == {time_ms} \cup {SENSOR_NAMES[k] : k \in 1..Len(SENSOR_NAMES)}

MissingColumns(f) == {c \in RequiredColumns : ~HasColumn(f, c)}

\* C20: when a required column (time_ms or a sensor channel) is missing from
\* the frame, the report of validate_sensor_data is not valid, its
\* missing_columns lists every missing column once, and the later checks did
\* not run: timestamp issues, dropout count and rate, saturated,
\* disconnected and stuck sensors have their default values.
C20_MissingColumnsStopValidation ==
  (mode = "validate" /\ pc = "validated" /\ MissingColumns(frame) # {}) =>
     /\ report.is_valid = FALSE
     /\ {report.missing_columns[i] : i \in 1..Len(report.missing_columns)}
          = MissingColumns(frame)
     /\ Len(report.missing_columns) = Cardinality(MissingColumns(frame))
     /\ report.timestamp_issues = <<>>
     /\ report.dropout_count = 0
     /\ ValEq(report.dropout_rate, Num(0))
     /\ report.saturated_sensors = <<>>
     /\ report.disconnected_sensors = <<>>
     /\ report.stuck_sensors = <<>>

\* two sensor columns are missing from a recording whose timestamps and
\* remaining sensors would be reported by the later checks
C20_Witness ==
  /\ mode = "validate" /\ pc = "validated"
  /\ MissingColumns(frame) = {L_P_Heel, R_P_Heel}
  /\ check_timestamps(frame)[2] # <<>>
  /\ check_stuck_sensors(frame) # <<>>
  /\ check_adc_range(frame) # <<<<>>, <<>>>>
  /\ report.missing_columns = <<L_P_Heel, R_P_Heel>>
  /\ ~report.is_valid


\* C21: predict returns 'unknown' for a row exactly when the base model's
\* maximum class probability for that row is strictly below the threshold,
\* and otherwise the base model's own prediction for that row
C21_RejectBelowThreshold ==
  mode = "reject" =>
    /\ Len(result) = Len(base_predictions)
    /\ \A i \in 1..Len(result) :
         /\ (result[i] = "unknown") <=> (\A k \in 1..3 : probs[i][k] < threshold)
         /\ result[i] # "unknown" => result[i] = base_predictions[i]

\* a batch with one row below the threshold and one row exactly at it
C21_Witness ==
  /\ mode = "reject"
  /\ Len(result) = 2
  /\ \E i, j \in 1..2 :
       /\ \A k \in 1..3 : probs[i][k] < threshold
       /\ result[i] = "unknown"
       /\ \E k \in 1..3 : probs[j][k] = threshold
       /\ \A k \in 1..3 : probs[j][k] <= threshold
       /\ result[j] = base_predictions[j]

\* the arrival numbers of the rows of each window segment_data returned
OfflineRanges ==
  [k \in 1..Len(windows) |-> [i \in 1..Len(windows[k]) |-> windows[k][i].n]]

\* C22: for any stream of timestamped samples, uniformly spaced or with
\* gaps, the windows the offline path featurizes are the same sequence of
\* sample ranges as the windows the online path featurizes
C22_SameWindows ==
  (mode = "replay" /\ pc = "segmented") => OfflineRanges = online_windows

\* the <<label, confidence>> entries of the last k calls of a trace
LastCalls(trace, k) ==
  LET n == Len(trace)
      from == IF n > k THEN n - k + 1 ELSE 1
  IN  [i \in 1..(n - from + 1) |-> <<trace[from + i - 1][1], trace[from + i - 1][2]>>] \o <<>>

\* the position of the first entry of a history with the given label
FirstOccurrence(history, l) ==
  CHOOSE i \in 1..Len(history) :
    /\ history[i][1] = l
    /\ \A j \in 1..(i - 1) : history[j][1] # l

\* C23: the smoother history never holds more than 5 predictions; appending
\* to a full history evicts exactly the oldest entry, so the history is the
\* last 5 predictions given and the smoothed label is decided by them alone
\* (the label with the largest confidence sum among them, the one that
\* appears first among them on a tie)
C23_HistoryBounded ==
  mode = "smoother" =>
    LET recent == LastCalls(smooth_trace, 5)
    IN  /\ Len(prediction_history) <= 5
        /\ prediction_history = recent
        /\ Len(smooth_trace) >= 3 =>
             /\ smoothed_pred \in TopLabels(recent)
             /\ \A l \in TopLabels(recent) :
                  FirstOccurrence(recent, smoothed_pred) <= FirstOccurrence(recent, l)

\* a sixth prediction evicted the first one, and with it the label that
\* would have won over all six
C23_Witness ==
  /\ mode = "smoother"
  /\ Len(smooth_trace) = 6
  /\ Len(prediction_history) = 5
  /\ prediction_history[1] = <<smooth_trace[2][1], smooth_trace[2][2]>>
  /\ smoothed_pred \notin TopLabels(LastCalls(smooth_trace, 6))

\* C24: a detect_steps call either raises step_count by exactly 1, sets
\* last_step_time to the current time and returns True, or leaves both
\* unchanged and returns False; a call with a non-gait activity, a sample
\* not above the threshold or a sample inside the refractory interval
\* changes nothing, and step_count never decreases
C24_StepFrame ==
  [][(mode = "steps" /\ detector = "RealTimeClassifier"
        /\ Len(step_trace') = Len(step_trace) + 1) =>
       LET call == step_trace'[Len(step_trace')]
           kept == step_count' = step_count /\ last_step_time' = last_step_time
       IN  /\ \/ /\ step_count' = step_count + 1
                 /\ last_step_time' = call[2]
                 /\ call[4] = TRUE
              \/ kept /\ call[4] = FALSE
           /\ (~IsGait(call[3]) \/ call[1] <= 2000
                 \/ call[2] - last_step_time <= 300) => kept
           /\ step_count' >= step_count]_vars

\* a counted step followed by a crossing inside the refractory interval,
\* which left the counter as it was
C24_Witness ==
  /\ mode = "steps" /\ detector = "RealTimeClassifier"
  /\ Len(step_trace) >= 2
  /\ LET n == Len(step_trace)
     IN  /\ step_trace[n - 1][4] = TRUE
         /\ step_trace[n][4] = FALSE
         /\ step_trace[n][1] > 2000
         /\ IsGait(step_trace[n][3])
         /\ last_step_time = step_trace[n - 1][2]
         /\ step_count >= 1

\* C25: two runs of the live loop fed the same sample stream at the same
\* arrival times end with the same step count, whatever labels and
\* confidences the classifier and the smoother return in each run
C25_StepsIndependentOfLabels ==
  (mode = "twin" /\ pc \in {"stopped", "disconnected"}) =>
     twin.step_count = step_count

\* C26: when the live loop stops, the samples left in the buffer are not
\* classified: neither the step that stops the loop nor any later step
\* classifies a window, updates the smoother or the step counter, or takes
\* samples from the buffer, and the classification count of the summary is
\* the count the loop had when it stopped
C26_NoFlushOnStop ==
  [][(mode = "live" /\ pc' \in {"stopped", "disconnected"}) =>
       /\ classification_count' = classification_count
       /\ total_predictions' = total_predictions
       /\ prediction_history' = prediction_history
       /\ prediction' = prediction
       /\ confidence' = confidence
       /\ smoothed_pred' = smoothed_pred
       /\ current_activity' = current_activity
       /\ step_count' = step_count
       /\ last_step_time' = last_step_time
       /\ online_windows' = online_windows
       /\ window_log' = window_log
       /\ buffer' = buffer
       /\ sample_count' = sample_count]_vars

\* the loop was stopped after a classification with samples in the buffer
\* that arrived after the last classified window
C26_Witness ==
  /\ mode = "live" /\ pc = "disconnected"
  /\ classification_count = 1
  /\ Len(online_windows) = 1
  /\ Len(buffer) > WINDOW_SAMPLES - STRIDE_SAMPLES
  /\ Len(buffer) < WINDOW_SAMPLES
  /\ buffer[Len(buffer)].n > online_windows[1][WINDOW_SAMPLES]

\* C27: with a reader thread and the UI thread running, the window buffer,
\* the current activity and the step-counter state are read and written by
\* the reader thread only; the UI thread never reads or writes them
C27_SingleOwner ==
  mode = "demo" =>
    \A f \in {"buffer", "current_activity", "step_count", "_last_step"} :
      touched[f] \subseteq {"reader"}

\* the callback drew a frame to which the reader added a point meanwhile,
\* and the reader is between the two halves of _process_sample after a
\* classification
C27_Witness ==
  /\ mode = "demo"
  /\ pc = "display"
  /\ frames >= 1
  /\ drawn = "different lengths"
  /\ current_activity \in Classes
  /\ touched["buffer"] = {"reader"}
  /\ touched["current_activity"] = {"reader"}
  /\ touched["step_count"] = {"reader"}
  /\ touched["plotter.data"] = {"reader", "ui"}

\* C28: in BLE classification mode every parsed notification reaches
\* _on_data, so once W parsed samples have been received a classification
\* has been performed (current_activity and confidence updated) and the
\* buffer has been slid by W/2
C28_BleClassifies ==
  (mode = "ble" /\ sample_count >= WINDOW_SAMPLES) =>
     /\ classification_count >= 1
     /\ current_activity # "Unknown"
     /\ Len(buffer) <= WINDOW_SAMPLES - STRIDE_SAMPLES + (sample_count - WINDOW_SAMPLES)

\* how many of the classified windows hold the sample with arrival number n
WindowsHolding(n) ==
  Cardinality({k \in 1..Len(online_windows) :
                 \E i \in 1..Len(online_windows[k]) : online_windows[k][i] = n})

\* C29: in the live loop the buffer's capacity eviction never fires: an
\* append never finds the buffer full, the buffer holds W - S samples right
\* after each classification and never more than W; every sample received up
\* to the last classification is in at least one and at most two classified
\* windows, and every sample received is in a classified window or still in
\* the buffer
C29_NoEviction ==
  /\ [](mode = "live" =>
          /\ Len(buffer) <= WINDOW_SAMPLES
          /\ \A n \in 1..sample_count :
               \/ WindowsHolding(n) >= 1
               \/ \E i \in 1..Len(buffer) : buffer[i].n = n
          /\ online_windows # <<>> =>
               \A n \in 1..online_windows[Len(online_windows)][WINDOW_SAMPLES] :
                  WindowsHolding(n) \in {1, 2})
  /\ [][(mode = "live" /\ sample_count' = sample_count + 1) =>
          /\ Len(buffer) < WINDOW_SAMPLES
          /\ classification_count' = classification_count + 1 =>
               Len(buffer') = WINDOW_SAMPLES - STRIDE_SAMPLES]_vars

\* right after the second classification: the samples of the first half of
\* the first window are in one window, those of its second half in two
C29_Witness ==
  /\ mode = "live" /\ pc = "running"
  /\ Len(online_windows) = 2
  /\ sample_count = online_windows[2][WINDOW_SAMPLES]
  /\ Len(buffer) = WINDOW_SAMPLES - STRIDE_SAMPLES
  /\ WindowsHolding(1) = 1
  /\ WindowsHolding(STRIDE_SAMPLES + 1) = 2

\* the arrival numbers of the samples received while the main thread was at
\* one of the given positions
ReceivedAt(positions) ==
  {received[i][1] : i \in {j \in 1..Len(received) : received[j][2] \in positions}}

\* C30: under every interleaving of the collection thread with
\* start_recording and stop_recording, the list stop_recording returns holds
\* no sample received before start_recording was called, holds every sample
\* received between the return of start_recording and the call of
\* stop_recording, and is in arrival order
C30_RecordingExact ==
  (mode = "collector" /\ pc = "returned") =>
     LET got == {recorded[i] : i \in 1..Len(recorded)}
     IN  /\ got \cap ReceivedAt({"idle"}) = {}
         /\ ReceivedAt({"recording"}) \subseteq got
         /\ \A i \in 1..(Len(recorded) - 1) : recorded[i] < recorded[i + 1]
=============================================================================
